---- MODULE Spec2Model ----
(***************************************************************************)
(* A model of SplinterDB's public facade (splinterdb.c): the               *)
(* variable-length key codec, the point operations with their reusable     *)
(* lookup result, the range iterator and the create/open/close lifecycle.  *)
(* The storage engine below the facade (trunk, allocator, cache) is an     *)
(* external collaborator: it is modelled by its contract, a persistent     *)
(* ordered map from physical keys to messages.                             *)
(***************************************************************************)
EXTENDS Integers, Sequences, FiniteSets, TLC

(***************************************************************************)
(* Sizes.  MAX_KEY_SIZE is the engine's fixed key slot and KeySize the     *)
(* application's data_config.key_size; both are scaled down here.  The     *)
(* source only requires 8 <= MAX_KEY_SIZE <= 105 and                        *)
(* SPLINTERDB_MAX_KEY_SIZE + sizeof(var_len_key_encoding) == MAX_KEY_SIZE. *)
(***************************************************************************)
MAX_KEY_SIZE == 4

KeySize == 2

CodecMaxByte == 1

SPLINTERDB_MAX_KEY_SIZE == MAX_KEY_SIZE - 1

UINT8_MAX == 255

EINVAL == 22

\* platform_status values, as platform_status_to_int() returns them.
STATUS_OK == 0

STATUS_BAD_PARAM == 22

STATUS_NO_MEMORY == 12

STATUS_IO_ERROR == 5

STATUS_INVALID_STATE == 131

SUCCESS(status) == status = STATUS_OK

platform_status_to_int(status) == status

(***************************************************************************)
(* Slices.  A slice is a sequence of bytes; the null slice (data = NULL)   *)
(* is a value no byte string equals, distinguishable from the empty slice. *)
(***************************************************************************)
NULL_SLICE == <<-1>>

slice_is_null(s) == s = NULL_SLICE

slice_length(s) == IF slice_is_null(s) THEN 0 ELSE Len(s)

(***************************************************************************)
(* The key codec.                                                          *)
(***************************************************************************)
\* encode_key with the length header left out (the payload is copied to
\* the start of the buffer): a codec that cannot tell "" from "\0".
encode_key_no_header(out_key_buffer_len, out_key_buffer, in_key) ==
    IF slice_length(in_key) > SPLINTERDB_MAX_KEY_SIZE
    THEN [rc |-> EINVAL, buf |-> out_key_buffer]
    ELSE [rc  |-> 0,
          buf |-> [i \in 1..out_key_buffer_len |->
                     IF i <= slice_length(in_key) THEN in_key[i] ELSE 0]]

\* encode_key with the zero-fill done before the length check.
encode_key_clear_first(out_key_buffer_len, out_key_buffer, in_key) ==
    IF slice_length(in_key) > SPLINTERDB_MAX_KEY_SIZE
    THEN [rc |-> EINVAL, buf |-> [i \in 1..out_key_buffer_len |-> 0]]
    ELSE [rc  |-> 0,
          buf |-> [i \in 1..out_key_buffer_len |->
                     IF i = 1 THEN slice_length(in_key) % (UINT8_MAX + 1)
                     ELSE IF i - 1 <= slice_length(in_key) THEN in_key[i - 1]
                     ELSE 0]]

\* encode_key without the memset: the bytes after the payload keep what the
\* buffer held.
encode_key_no_zero_fill(out_key_buffer_len, out_key_buffer, in_key) ==
    IF slice_length(in_key) > SPLINTERDB_MAX_KEY_SIZE
    THEN [rc |-> EINVAL, buf |-> out_key_buffer]
    ELSE [rc  |-> 0,
          buf |-> [i \in 1..out_key_buffer_len |->
                     IF i = 1 THEN slice_length(in_key) % (UINT8_MAX + 1)
                     ELSE IF i - 1 <= slice_length(in_key) THEN in_key[i - 1]
                     ELSE out_key_buffer[i]]]

\* encode_key(out_key_buffer_len, out_key_buffer, in_key): the return code
\* and the buffer afterwards.  Callers pass out_key_buffer_len =
\* MAX_KEY_SIZE (asserted).  memset 0, then the uint8 length header, then
\* the payload.
encode_key(out_key_buffer_len, out_key_buffer, in_key) ==
    IF slice_length(in_key) > SPLINTERDB_MAX_KEY_SIZE
    THEN [rc |-> EINVAL, buf |-> out_key_buffer]
    ELSE [rc  |-> 0,
          buf |-> [i \in 1..out_key_buffer_len |->
                     IF i = 1 THEN slice_length(in_key) % (UINT8_MAX + 1)
                     ELSE IF i - 1 <= slice_length(in_key) THEN in_key[i - 1]
                     ELSE 0]]

\* The logical slice of a physical key, as the shim callbacks and
\* splinterdb_iterator_get_current form it:
\* slice_create(kenc->length, kenc->data).
decode_key(key_raw) ==
    [i \in 1..key_raw[1] |-> key_raw[i + 1]]

\* char key_buffer[MAX_KEY_SIZE] = {0}
ZeroKeyBuffer == [i \in 1..MAX_KEY_SIZE |-> 0]

(***************************************************************************)
(* The application's data_config: the default one, built by                *)
(* default_data_config_init(KeySize, ...).                                  *)
(***************************************************************************)
MinOf(S) == CHOOSE x \in S : \A y \in S : x <= y

\* slice_lex_cmp: memcmp over the common prefix, then the lengths.
slice_lex_cmp(a, b) ==
    LET n     == IF Len(a) < Len(b) THEN Len(a) ELSE Len(b)
        diffs == {i \in 1..n : a[i] # b[i]}
    IN  IF diffs # {}
        THEN a[MinOf(diffs)] - b[MinOf(diffs)]
        ELSE Len(a) - Len(b)

\* key_compare of the default data_config.
key_compare(key1, key2) == slice_lex_cmp(key1, key2)

\* default_data_config_init without the memset of max_key to 0xFF: the
\* array stays as its initialiser {0} left it.
default_data_config_init_no_memset(max_key_size) ==
    [key_size       |-> max_key_size,
     min_key        |-> <<>>,
     min_key_length |-> 0,
     max_key        |-> [i \in 1..max_key_size |-> 0],
     max_key_length |-> max_key_size]

\* The data_config default_data_config_init(max_key_size, ...) produces.
default_data_config_init(max_key_size) ==
    [key_size       |-> max_key_size,
     min_key        |-> <<>>,
     min_key_length |-> 0,
     max_key        |-> [i \in 1..max_key_size |-> UINT8_MAX],
     max_key_length |-> max_key_size]

app_data_cfg == default_data_config_init(KeySize)

\* splinterdb_shim_key_compare with the physical keys compared as raw
\* bytes, header and padding included.
shim_key_compare_raw(key1_raw, key2_raw) ==
    slice_lex_cmp(key1_raw, key2_raw)

\* splinterdb_shim_key_compare handing the application the whole data
\* area of the slot, padding included, instead of kenc->length bytes.
shim_key_compare_padded(key1_raw, key2_raw) ==
    key_compare(Tail(key1_raw), Tail(key2_raw))

\* splinterdb_shim_key_compare: strip the header, call the application's
\* comparator on the logical slices.
splinterdb_shim_key_compare(key1_raw, key2_raw) ==
    key_compare(decode_key(key1_raw), decode_key(key2_raw))

(***************************************************************************)
(* Messages.  message_create(type, slice); DELETE_MESSAGE carries no       *)
(* payload.                                                                *)
(***************************************************************************)
MESSAGE_TYPE_INSERT == "INSERT"

MESSAGE_TYPE_UPDATE == "UPDATE"

MESSAGE_TYPE_DELETE == "DELETE"

MESSAGE_TYPE_INVALID == "INVALID"

message_create(type, data) == [type |-> type, data |-> data]

DELETE_MESSAGE == message_create(MESSAGE_TYPE_DELETE, NULL_SLICE)

message_slice(msg) == msg.data

(***************************************************************************)
(* The default data_config's message codec: message_encoding is one type   *)
(* byte followed by the value.                                             *)
(***************************************************************************)
\* The message_type enum's value for a type, as stored in the header byte.
message_type_code(type) ==
    CASE type = MESSAGE_TYPE_INSERT -> 1
      [] type = MESSAGE_TYPE_DELETE -> 2
      [] type = MESSAGE_TYPE_UPDATE -> 3
      [] OTHER -> 0

\* encode_message(type, value_len, value, dst_msg_buffer_len,
\* dst_msg_buffer, out_encoded_len): the return code, the buffer and
\* *out_encoded_len afterwards, and whether the type byte was stored past
\* the end of a zero-length buffer.  The type byte is stored before the
\* capacity check.
encode_message(type, value, dst_msg_buffer_len, dst_msg_buffer, out_encoded_len) ==
    LET typed == [i \in 1..dst_msg_buffer_len |->
                    IF i = 1 THEN message_type_code(type)
                    ELSE dst_msg_buffer[i]]
    IN  IF Len(value) + 1 > dst_msg_buffer_len
        THEN [rc |-> EINVAL, buf |-> typed,
              encoded_len |-> out_encoded_len,
              overflow |-> dst_msg_buffer_len = 0]
        ELSE [rc  |-> 0,
              buf |-> [i \in 1..dst_msg_buffer_len |->
                         IF i = 1 THEN typed[1]
                         ELSE IF i - 1 <= Len(value) THEN value[i - 1]
                         ELSE typed[i]],
              encoded_len |-> 1 + Len(value),
              overflow |-> FALSE]

\* decode_message without the length check: a buffer shorter than the
\* header is decoded like any other.
decode_message_unchecked(msg_buffer_len, msg_buffer) ==
    [rc |-> 0,
     value |-> [i \in 1..(msg_buffer_len - 1) |-> msg_buffer[i + 1]]]

\* decode_message(msg_buffer_len, msg_buffer, out_value_len, out_value):
\* the return code and the value slice (a view of the bytes after the
\* header).
decode_message(msg_buffer_len, msg_buffer) ==
    IF msg_buffer_len < 1
    THEN [rc |-> EINVAL, value |-> NULL_SLICE]
    ELSE [rc |-> 0,
          value |-> [i \in 1..(msg_buffer_len - 1) |-> msg_buffer[i + 1]]]

\* message_class(cfg, raw_msg_len, raw_msg): the class, or the failed
\* platform_assert of the default branch.
message_class(raw_msg_len, raw_msg) ==
    CASE raw_msg[1] = message_type_code(MESSAGE_TYPE_INSERT) ->
            [class |-> MESSAGE_TYPE_INSERT, asserted |-> FALSE]
      [] raw_msg[1] = message_type_code(MESSAGE_TYPE_DELETE) ->
            [class |-> MESSAGE_TYPE_DELETE, asserted |-> FALSE]
      [] OTHER -> [class |-> MESSAGE_TYPE_INVALID, asserted |-> TRUE]

(***************************************************************************)
(* The engine's contract.  A trunk is a set of entries [key, msg], one per *)
(* physical key, holding the key's resolved message.                       *)
(***************************************************************************)
EmptyTrunk == {}

\* trunk_insert: an Insert replaces the key's message, a Delete removes
\* the key, an Update is merged by the data_config's merge callbacks,
\* which for the default data_config are no-ops.
trunk_insert(trunk, key_buffer, msg) ==
    LET others == {e \in trunk : e.key # key_buffer}
    IN  CASE msg.type = MESSAGE_TYPE_INSERT ->
               others \cup {[key |-> key_buffer, msg |-> msg]}
          [] msg.type = MESSAGE_TYPE_DELETE -> others
          [] OTHER -> trunk

\* merge_accumulator_init_with_buffer(..., WRITABLE_BUFFER_NULL_LENGTH,
\* MESSAGE_TYPE_INVALID): the null accumulator.
NullAccumulator == [type |-> MESSAGE_TYPE_INVALID, data |-> NULL_SLICE]

\* trunk_lookup: the accumulator is set to null, then filled with the
\* key's message when there is one.
trunk_lookup(trunk, key_buffer) ==
    IF \E e \in trunk : e.key = key_buffer
    THEN LET e == CHOOSE x \in trunk : x.key = key_buffer
         IN  [type |-> e.msg.type, data |-> e.msg.data]
    ELSE NullAccumulator

trunk_lookup_found(result) == result.type # MESSAGE_TYPE_INVALID

merge_accumulator_to_value(result) == result.data

\* The entries of a trunk in the order of the engine's data_config, which
\* is the shim: smallest first.
RECURSIVE TrunkOrder(_)
TrunkOrder(entries) ==
    IF entries = {} THEN <<>>
    ELSE LET m == CHOOSE x \in entries :
                    \A y \in entries :
                       splinterdb_shim_key_compare(x.key, y.key) <= 0
         IN  <<m>> \o TrunkOrder(entries \ {m})

\* trunk_range_iterator_init(spl, itor, min_key, NULL, UINT64_MAX): the
\* entries from min_key on (all of them for a NULL min_key), in order.
trunk_range_iterator_init(trunk, min_key) ==
    TrunkOrder({e \in trunk :
                  \/ slice_is_null(min_key)
                  \/ splinterdb_shim_key_compare(e.key, min_key) >= 0})

(***************************************************************************)
(* Point operations.                                                       *)
(***************************************************************************)
\* validate_key_length that accepts every length.
validate_key_length_none(key_length) == 0

validate_key_length(key_length) ==
    IF key_length > app_data_cfg.key_size THEN EINVAL ELSE 0

validate_key_in_range(key) ==
    /\ ~ (key_compare(app_data_cfg.min_key, key) > 0)
    /\ ~ (key_compare(key, app_data_cfg.max_key) > 0)

\* validate_key_in_range for a Store whose application data_config is
\* cfg.
validate_key_in_range_of(cfg, key) ==
    /\ ~ (key_compare(cfg.min_key, key) > 0)
    /\ ~ (key_compare(key, cfg.max_key) > 0)

\* splinterdb_insert_message(kvs, key, msg): the return code and the trunk
\* afterwards.
splinterdb_insert_message(trunk, key, msg) ==
    LET rc == validate_key_length(slice_length(key))
        e  == encode_key(MAX_KEY_SIZE, ZeroKeyBuffer, key)
    IN  IF rc # 0 THEN [rc |-> rc, spl |-> trunk]
        ELSE IF e.rc # 0 THEN [rc |-> e.rc, spl |-> trunk]
        ELSE [rc  |-> platform_status_to_int(STATUS_OK),
              spl |-> trunk_insert(trunk, e.buf, msg)]

\* splinterdb_insert sending the value as an Update message.
splinterdb_insert_as_update(trunk, key, value) ==
    splinterdb_insert_message(
        trunk, key, message_create(MESSAGE_TYPE_UPDATE, value))

splinterdb_insert(trunk, key, value) ==
    splinterdb_insert_message(
        trunk, key, message_create(MESSAGE_TYPE_INSERT, value))

\* splinterdb_delete sending an Insert of an empty value instead of the
\* Delete sentinel.
splinterdb_delete_as_insert(trunk, key) ==
    splinterdb_insert_message(
        trunk, key, message_create(MESSAGE_TYPE_INSERT, <<>>))

splinterdb_delete(trunk, key) ==
    splinterdb_insert_message(trunk, key, DELETE_MESSAGE)

splinterdb_update(trunk, key, update) ==
    splinterdb_insert_message(
        trunk, key, message_create(MESSAGE_TYPE_UPDATE, update))

\* splinterdb_lookup_result_init
splinterdb_lookup_result_init == NullAccumulator

splinterdb_lookup_found(res) == trunk_lookup_found(res)

\* splinterdb_lookup_result_value writing the caller's slice before it
\* checks found.
splinterdb_lookup_result_value_eager(res, value) ==
    [rc    |-> IF splinterdb_lookup_found(res) THEN 0 ELSE EINVAL,
     value |-> merge_accumulator_to_value(res)]

\* splinterdb_lookup_result_value(result, value): the return code and the
\* caller's slice afterwards.
splinterdb_lookup_result_value(res, value) ==
    IF ~ splinterdb_lookup_found(res)
    THEN [rc |-> EINVAL, value |-> value]
    ELSE [rc |-> 0, value |-> merge_accumulator_to_value(res)]

\* splinterdb_lookup that never hands the result to the engine.
splinterdb_lookup_stale(trunk, key, res) ==
    LET rc == validate_key_length(slice_length(key))
    IN  IF rc # 0 THEN [rc |-> rc, result |-> res]
        ELSE [rc |-> 0,
              result |-> IF trunk_lookup_found(
                               trunk_lookup(trunk,
                                  encode_key(MAX_KEY_SIZE, ZeroKeyBuffer,
                                             key).buf))
                         THEN trunk_lookup(trunk,
                                  encode_key(MAX_KEY_SIZE, ZeroKeyBuffer,
                                             key).buf)
                         ELSE res]

\* splinterdb_lookup(kvs, key, result): the return code and the result
\* afterwards.
splinterdb_lookup(trunk, key, res) ==
    LET rc == validate_key_length(slice_length(key))
        e  == encode_key(MAX_KEY_SIZE, ZeroKeyBuffer, key)
    IN  IF rc # 0 THEN [rc |-> rc, result |-> res]
        ELSE IF e.rc # 0 THEN [rc |-> e.rc, result |-> res]
        ELSE [rc     |-> platform_status_to_int(STATUS_OK),
              result |-> trunk_lookup(trunk, e.buf)]

(***************************************************************************)
(* The range iterator.  The wrapper holds the trunk range iterator (the    *)
(* entries still to come), the cached status and, for the properties, the  *)
(* start key it was given and the min_key handed to the engine.            *)
(***************************************************************************)
NullIterator ==
    [live |-> FALSE, sri |-> <<>>, last_rc |-> STATUS_OK,
     start |-> NULL_SLICE, min_key |-> NULL_SLICE]

\* splinterdb_iterator_init taking an empty start key for the null slice.
iterator_min_key_empty_is_null(start_key) ==
    IF slice_length(start_key) = 0 THEN NULL_SLICE
    ELSE encode_key(MAX_KEY_SIZE, ZeroKeyBuffer, start_key).buf

\* The min_key splinterdb_iterator_init passes to
\* trunk_range_iterator_init: NULL for the null slice, else the start key
\* encoded into start_key_buffer.
iterator_min_key(start_key) ==
    IF slice_is_null(start_key) THEN NULL_SLICE
    ELSE encode_key(MAX_KEY_SIZE, ZeroKeyBuffer, start_key).buf

\* splinterdb_iterator_init(kvs, iter, start_key), given whether the
\* allocation succeeds and the status of trunk_range_iterator_init: the
\* return code, the caller's pointer afterwards, what became of the
\* wrapper and what was passed to platform_free.
splinterdb_iterator_init(trunk, iter_in, start_key, malloc_ok, status) ==
    LET enc_rc == IF slice_is_null(start_key) THEN 0
                  ELSE encode_key(MAX_KEY_SIZE, ZeroKeyBuffer, start_key).rc
    IN  IF ~ malloc_ok
        THEN [rc |-> platform_status_to_int(STATUS_NO_MEMORY),
              iter |-> iter_in, wrapper |-> "none", freed |-> "nothing"]
        ELSE IF enc_rc # 0
        THEN [rc |-> enc_rc,
              iter |-> iter_in, wrapper |-> "leaked", freed |-> "nothing"]
        ELSE IF ~ SUCCESS(status)
        THEN [rc |-> platform_status_to_int(status),
              iter |-> iter_in, wrapper |-> "leaked", freed |-> "*iter"]
        ELSE [rc |-> 0,
              iter |-> [live    |-> TRUE,
                        sri     |-> trunk_range_iterator_init(
                                       trunk, iterator_min_key(start_key)),
                        last_rc |-> STATUS_OK,
                        start   |-> start_key,
                        min_key |-> iterator_min_key(start_key)],
              wrapper |-> "owned", freed |-> "nothing"]

\* iterator_at_end on the trunk range iterator.
iterator_at_end(sri) == sri = <<>>

\* splinterdb_iterator_valid without the early return on a cached
\* failure: the end-of-range query is made, and cached, every time.
splinterdb_iterator_valid_requeries(kvi, status) ==
    IF ~ SUCCESS(status)
    THEN [valid |-> FALSE, kvi |-> [kvi EXCEPT !.last_rc = status]]
    ELSE [valid |-> ~ iterator_at_end(kvi.sri),
          kvi   |-> [kvi EXCEPT !.last_rc = status]]

\* splinterdb_iterator_valid(kvi), given the status iterator_at_end
\* returns: the answer and the wrapper afterwards.
splinterdb_iterator_valid(kvi, status) ==
    IF ~ SUCCESS(kvi.last_rc)
    THEN [valid |-> FALSE, kvi |-> kvi]
    ELSE IF ~ SUCCESS(status)
    THEN [valid |-> FALSE, kvi |-> [kvi EXCEPT !.last_rc = status]]
    ELSE [valid |-> ~ iterator_at_end(kvi.sri),
          kvi   |-> [kvi EXCEPT !.last_rc = status]]

\* splinterdb_iterator_next leaving a cached failure in place.
splinterdb_iterator_next_keeps_failure(kvi, status) ==
    IF ~ SUCCESS(kvi.last_rc) THEN kvi
    ELSE [kvi EXCEPT !.last_rc = status,
                     !.sri = IF SUCCESS(status) THEN Tail(kvi.sri)
                             ELSE kvi.sri]

\* splinterdb_iterator_next(kvi), given the status iterator_advance
\* returns.
splinterdb_iterator_next(kvi, status) ==
    [kvi EXCEPT !.last_rc = status,
                !.sri = IF SUCCESS(status) THEN Tail(kvi.sri) ELSE kvi.sri]

splinterdb_iterator_status(kvi) == platform_status_to_int(kvi.last_rc)

\* splinterdb_iterator_get_current: the logical key slice and the
\* message's payload.
splinterdb_iterator_get_current(kvi) ==
    LET curr == Head(kvi.sri)
    IN  <<decode_key(curr.key), message_slice(curr.msg)>>

(***************************************************************************)
(* Lifecycle.                                                              *)
(***************************************************************************)
\* Where splinterdb_create_or_open can fail: the Store allocation,
\* splinterdb_init_config, and each subsystem in the order it is set up.
FailPoints ==
    {"none", "TYPED_ZALLOC", "splinterdb_init_config", "io_handle_init",
     "task_system_create", "rc_allocator", "clockcache_init", "trunk"}

\* The device when no cleanly unmounted store is on it.
NoImage == [valid |-> FALSE, data |-> EmptyTrunk]

\* The open_existing branch taken the wrong way round: trunk_create even
\* when mounting an existing store.
trunk_create_always(open_existing, image) == EmptyTrunk

\* kvs->spl after the trunk_mount / trunk_create branch.
trunk_mount_or_create(open_existing, image) ==
    IF open_existing THEN image.data ELSE EmptyTrunk

\* splinterdb_create_or_open(kvs_cfg, kvs_out, open_existing) when the
\* step `fail` fails ("none": no step does): the return code, whether
\* *kvs_out is written, and whether rc_allocator_init was reached.
splinterdb_create_or_open(open_existing, fail) ==
    [rc |-> platform_status_to_int(
               CASE fail = "none" -> STATUS_OK
                 [] fail = "TYPED_ZALLOC" -> STATUS_NO_MEMORY
                 [] fail = "splinterdb_init_config" -> STATUS_BAD_PARAM
                 [] fail = "trunk" -> STATUS_INVALID_STATE
                 [] OTHER -> STATUS_IO_ERROR),
     published |-> fail = "none",
     allocator_init |->
         /\ ~ open_existing
         /\ fail \in {"rc_allocator", "clockcache_init", "trunk", "none"}]

(***************************************************************************)
(* Lifecycle, resource by resource.  What one call of                      *)
(* splinterdb_create_or_open does with the caller's splinterdb_config, the *)
(* Store object, the subsystems and the heap handles.  Subsystems are      *)
(* named "io_handle", "task_system", "allocator", "cache"; "kvs" is the    *)
(* Store object.                                                           *)
(***************************************************************************)
NULL_HANDLE == 0

\* splinterdb_validate_app_data_config: the status, or the platform_assert
\* that fails.
splinterdb_validate_app_data_config(cfg) ==
    IF ~ (cfg.key_size > 0)
    THEN [asserted |-> TRUE, status |-> STATUS_OK]
    ELSE IF cfg.key_size > SPLINTERDB_MAX_KEY_SIZE
    THEN [asserted |-> FALSE, status |-> STATUS_BAD_PARAM]
    ELSE IF \/ ~ (cfg.max_key_length > 0)
            \/ ~ (cfg.max_key_length <= cfg.key_size)
            \/ ~ (cfg.min_key_length <= cfg.key_size)
            \/ ~ (key_compare(cfg.min_key, cfg.max_key) < 0)
    THEN [asserted |-> TRUE, status |-> STATUS_OK]
    ELSE [asserted |-> FALSE, status |-> STATUS_OK]

\* A shim_data_config as its initialiser {0} leaves it.  A pointer is
\* the empty sequence when NULL and <<target>> otherwise.
ZeroShim ==
    [super |-> [key_size           |-> 0,
                min_key            |-> ZeroKeyBuffer,
                min_key_length     |-> 0,
                max_key            |-> ZeroKeyBuffer,
                max_key_length     |-> 0,
                key_compare        |-> "NULL",
                key_hash           |-> "NULL",
                merge_tuples       |-> "NULL",
                merge_tuples_final |-> "NULL",
                key_to_string      |-> "NULL",
                message_to_string  |-> "NULL"],
     app_data_cfg |-> <<>>]

\* The first n bytes of a key array, as slice_create(n, array) names them.
slice_create(length, data) == SubSeq(data, 1, length)

\* A key array of the data_config: the bytes given, zero up to MAX_KEY_SIZE.
KeyArray(bytes) ==
    [i \in 1..MAX_KEY_SIZE |-> IF i <= Len(bytes) THEN bytes[i] ELSE 0]

\* splinterdb_shim_data_config copying the application's min_key and
\* max_key arrays as they are instead of encoding them.
splinterdb_shim_data_config_plain_bounds(app_cfg, out_shim) ==
    [rc |-> 0,
     out_shim |->
        [super |-> [key_size           |-> app_cfg.key_size + 1,
                    min_key            |-> KeyArray(app_cfg.min_key),
                    min_key_length     |-> 0,
                    max_key            |-> KeyArray(app_cfg.max_key),
                    max_key_length     |-> 0,
                    key_compare        |-> "splinterdb_shim_key_compare",
                    key_hash           |-> app_cfg.key_hash,
                    merge_tuples       |-> "splinterdb_shim_merge_tuple",
                    merge_tuples_final |-> "splinterdb_shim_merge_tuple_final",
                    key_to_string      |-> "splinterdb_shim_key_to_string",
                    message_to_string  |-> app_cfg.message_to_string],
         app_data_cfg |-> <<app_cfg>>]]

\* splinterdb_shim_data_config(app_cfg, out_shim): the return code and
\* *out_shim afterwards.  sizeof(var_len_key_encoding) is 1,
\* sizeof(shim.min_key) is MAX_KEY_SIZE.
splinterdb_shim_data_config(app_cfg, out_shim) ==
    LET min == encode_key(MAX_KEY_SIZE, ZeroKeyBuffer,
                          slice_create(app_cfg.min_key_length,
                                       app_cfg.min_key))
        max == encode_key(MAX_KEY_SIZE, ZeroKeyBuffer,
                          slice_create(app_cfg.max_key_length,
                                       app_cfg.max_key))
    IN  IF min.rc # 0 THEN [rc |-> min.rc, out_shim |-> out_shim]
        ELSE IF max.rc # 0 THEN [rc |-> max.rc, out_shim |-> out_shim]
        ELSE
        [rc |-> 0,
         out_shim |->
            [super |-> [key_size           |-> app_cfg.key_size + 1,
                        min_key            |-> min.buf,
                        min_key_length     |-> 0,
                        max_key            |-> max.buf,
                        max_key_length     |-> 0,
                        key_compare        |-> "splinterdb_shim_key_compare",
                        key_hash           |-> app_cfg.key_hash,
                        merge_tuples       |-> "splinterdb_shim_merge_tuple",
                        merge_tuples_final |->
                            "splinterdb_shim_merge_tuple_final",
                        key_to_string      |-> "splinterdb_shim_key_to_string",
                        message_to_string  |-> app_cfg.message_to_string],
             app_data_cfg |-> <<app_cfg>>]]

\* An application data_config with its key_hash and message_to_string
\* callbacks named.
AppDataConfig(key_size, min_key, max_key, key_hash, message_to_string) ==
    [key_size          |-> key_size,
     min_key           |-> min_key,
     min_key_length    |-> Len(min_key),
     max_key           |-> max_key,
     max_key_length    |-> Len(max_key),
     key_hash          |-> key_hash,
     message_to_string |-> message_to_string]

\* splinterdb_init_config copying the heap handles into the Store and
\* leaving them in the caller's config as well.
splinterdb_init_config_copy(kvs_cfg, data_cfg, required, laio_valid) ==
    LET v == splinterdb_validate_app_data_config(data_cfg)
        unmoved == [heap_handle |-> NULL_HANDLE, heap_id |-> NULL_HANDLE]
        copied  == [heap_handle |-> kvs_cfg.heap_handle,
                    heap_id     |-> kvs_cfg.heap_id]
    IN  IF v.asserted
        THEN [asserted |-> TRUE, status |-> STATUS_OK,
              cfg |-> kvs_cfg, kvs |-> unmoved]
        ELSE IF ~ SUCCESS(v.status) \/ required # "none"
        THEN [asserted |-> FALSE, status |-> STATUS_BAD_PARAM,
              cfg |-> kvs_cfg, kvs |-> unmoved]
        ELSE [asserted |-> FALSE,
              status |-> IF laio_valid THEN STATUS_OK ELSE STATUS_BAD_PARAM,
              cfg |-> kvs_cfg, kvs |-> copied]

\* splinterdb_init_config(kvs_cfg, kvs) on a zeroed Store: the status (or
\* failed assert), the caller's config afterwards and the handles the
\* Store holds.  `required` names the required field that is unset
\* ("none": all are set); laio_valid is laio_config_valid's verdict.
splinterdb_init_config(kvs_cfg, data_cfg, required, laio_valid) ==
    LET v        == splinterdb_validate_app_data_config(data_cfg)
        unmoved  == [heap_handle |-> NULL_HANDLE, heap_id |-> NULL_HANDLE]
        moved    == [heap_handle |-> kvs_cfg.heap_handle,
                     heap_id     |-> kvs_cfg.heap_id]
        nulled   == [kvs_cfg EXCEPT !.heap_handle = NULL_HANDLE,
                                    !.heap_id = NULL_HANDLE]
    IN  IF v.asserted
        THEN [asserted |-> TRUE, status |-> STATUS_OK,
              cfg |-> kvs_cfg, kvs |-> unmoved]
        ELSE IF ~ SUCCESS(v.status)
        THEN [asserted |-> FALSE, status |-> v.status,
              cfg |-> kvs_cfg, kvs |-> unmoved]
        ELSE IF required # "none"
        THEN [asserted |-> FALSE, status |-> STATUS_BAD_PARAM,
              cfg |-> kvs_cfg, kvs |-> unmoved]
        ELSE IF ~ laio_valid
        THEN [asserted |-> FALSE, status |-> STATUS_BAD_PARAM,
              cfg |-> nulled, kvs |-> moved]
        ELSE [asserted |-> FALSE, status |-> STATUS_OK,
              cfg |-> nulled, kvs |-> moved]

\* The subsystems in the order splinterdb_create_or_open sets them up.
InitOrder == <<"io_handle", "task_system", "allocator", "cache">>

\* The cleanup labels run the wrong way round: in the order of
\* initialisation.
create_teardown_forward(label) ==
    CASE label = "deinit_cache" ->
            <<"io_handle", "task_system", "allocator", "cache", "kvs">>
      [] label = "deinit_allocator" ->
            <<"io_handle", "task_system", "allocator", "kvs">>
      [] label = "deinit_system" -> <<"io_handle", "task_system", "kvs">>
      [] label = "deinit_iohandle" -> <<"io_handle", "kvs">>
      [] OTHER -> <<"kvs">>

\* What is released from a cleanup label on: the labels fall through to
\* platform_free(kvs).
create_teardown(label) ==
    CASE label = "deinit_cache" ->
            <<"cache", "allocator", "task_system", "io_handle", "kvs">>
      [] label = "deinit_allocator" ->
            <<"allocator", "task_system", "io_handle", "kvs">>
      [] label = "deinit_system" -> <<"task_system", "io_handle", "kvs">>
      [] label = "deinit_iohandle" -> <<"io_handle", "kvs">>
      [] OTHER -> <<"kvs">>

\* Where a call of create/open can fail below the facade.
StepFailures ==
    {"none", "platform_heap_create", "TYPED_ZALLOC", "laio_config_valid",
     "io_handle_init", "task_system_create", "rc_allocator",
     "clockcache_init", "trunk"}

\* The subsystems initialised when the step `fail` is reached, and the
\* cleanup label its failure jumps to.
InitedBefore(fail) ==
    CASE fail = "task_system_create" -> SubSeq(InitOrder, 1, 1)
      [] fail = "rc_allocator" -> SubSeq(InitOrder, 1, 2)
      [] fail = "clockcache_init" -> SubSeq(InitOrder, 1, 3)
      [] fail \in {"trunk", "none"} -> InitOrder
      [] OTHER -> <<>>

FailureLabel(fail) ==
    CASE fail = "task_system_create" -> "deinit_iohandle"
      [] fail = "rc_allocator" -> "deinit_system"
      [] fail = "clockcache_init" -> "deinit_allocator"
      [] fail = "trunk" -> "deinit_cache"
      [] OTHER -> "deinit_kvhandle"

\* The subsystem calls with trunk_create made whatever open_existing is.
AcquireCallsCreateTrunk(open_existing) ==
    <<"io_handle_init", "task_system_create",
      IF open_existing THEN "rc_allocator_mount" ELSE "rc_allocator_init",
      "clockcache_init", "trunk_create">>

\* The subsystem calls splinterdb_create_or_open makes once
\* splinterdb_init_config has succeeded, in program order; each is
\* followed by a goto to a cleanup label when it fails.
AcquireCalls(open_existing) ==
    <<"io_handle_init", "task_system_create",
      IF open_existing THEN "rc_allocator_mount" ELSE "rc_allocator_init",
      "clockcache_init",
      IF open_existing THEN "trunk_mount" ELSE "trunk_create">>

\* The same for kvstore_create_or_open.
KvstoreAcquireCalls(open_existing) ==
    <<"io_handle_init", "task_system_create",
      IF open_existing THEN "rc_allocator_mount" ELSE "rc_allocator_init",
      "clockcache_init",
      IF open_existing THEN "splinter_mount" ELSE "splinter_create">>

\* How many of them have been called when the step `fail` fails.
AttemptedUpTo(fail) ==
    IF fail \in {"io_handle_init", "task_system_create", "rc_allocator",
                 "clockcache_init", "trunk"}
    THEN Len(InitedBefore(fail)) + 1
    ELSE 0

\* How a read through a null Store pointer ends.
NullDerefOutcomes == {"SIGSEGV", "reads garbage"}

NoHandles == [heap_handle |-> NULL_HANDLE, heap_id |-> NULL_HANDLE]

\* A null trunk leaving `status` as clockcache_init set it.
step_failure_status_unset(fail) ==
    IF fail = "trunk" THEN STATUS_OK ELSE STATUS_IO_ERROR

\* The status a failed subsystem step leaves in `status`.
step_failure_status(fail) ==
    IF fail = "trunk" THEN STATUS_INVALID_STATE ELSE STATUS_IO_ERROR

\* splinterdb_create_or_open(kvs_cfg, kvs_out, open_existing) for a caller
\* config kvs_cfg = [use_shmem, heap_handle, heap_id] with data config
\* data_cfg, when the step `fail` fails: whether the call returns, its
\* return code, whether *kvs_out is written, the caller's config and the
\* Store's handles afterwards, whether the Store was allocated, the
\* subsystems initialised and the releases made, in order, the heap id
\* handed to platform_free, the heap the call created, and whether kvs
\* was read while NULL.  new_heap is the handle platform_heap_create
\* would return.
create_or_open_resources(kvs_cfg, data_cfg, required, open_existing, fail, new_heap, null_deref) ==
    LET creates == kvs_cfg.use_shmem /\ kvs_cfg.heap_handle = NULL_HANDLE
        c1   == IF creates
                THEN [kvs_cfg EXCEPT !.heap_handle = new_heap,
                                     !.heap_id = new_heap]
                ELSE kvs_cfg
        made == IF creates THEN new_heap ELSE NULL_HANDLE
        ic   == splinterdb_init_config(c1, data_cfg, required,
                                       fail # "laio_config_valid")
        free_id == IF ic.kvs.heap_id # NULL_HANDLE THEN ic.kvs.heap_id
                   ELSE ic.cfg.heap_id
        base == [returned |-> TRUE, rc |-> 0, published |-> FALSE,
                 cfg |-> c1, kvs |-> NoHandles, allocated |-> TRUE,
                 inited |-> <<>>, released |-> <<>>,
                 free_heap_id |-> NULL_HANDLE, created_heap |-> made,
                 null_deref |-> FALSE, attempts |-> <<>>]
    IN  IF creates /\ fail = "platform_heap_create"
        THEN \* goto deinit_kvhandle with kvs == NULL
             [base EXCEPT !.returned = (null_deref # "SIGSEGV"),
                          !.rc = platform_status_to_int(STATUS_IO_ERROR),
                          !.cfg = kvs_cfg, !.allocated = FALSE,
                          !.created_heap = NULL_HANDLE,
                          !.null_deref = TRUE]
        ELSE IF fail = "TYPED_ZALLOC"
        THEN [base EXCEPT !.rc = platform_status_to_int(STATUS_NO_MEMORY),
                          !.allocated = FALSE]
        ELSE IF ic.asserted
        THEN [base EXCEPT !.returned = FALSE]
        ELSE IF ~ SUCCESS(ic.status)
        THEN [base EXCEPT !.rc = platform_status_to_int(ic.status),
                          !.cfg = ic.cfg, !.kvs = ic.kvs,
                          !.released = create_teardown("deinit_kvhandle"),
                          !.free_heap_id = free_id]
        ELSE IF fail \in {"io_handle_init", "task_system_create",
                          "rc_allocator", "clockcache_init", "trunk"}
        THEN [base EXCEPT !.rc = platform_status_to_int(
                                    step_failure_status(fail)),
                          !.cfg = ic.cfg, !.kvs = ic.kvs,
                          !.inited = InitedBefore(fail),
                          !.attempts = SubSeq(AcquireCalls(open_existing),
                                              1, AttemptedUpTo(fail)),
                          !.released = create_teardown(FailureLabel(fail)),
                          !.free_heap_id = free_id]
        ELSE [base EXCEPT !.rc = platform_status_to_int(STATUS_OK),
                          !.published = TRUE,
                          !.cfg = ic.cfg, !.kvs = ic.kvs,
                          !.inited = InitOrder,
                          !.attempts = AcquireCalls(open_existing)]

\* kvstore_create_or_open's cleanup labels (the older API).
kvstore_teardown(label) ==
    CASE label = "deinit_cache" ->
            <<"cache", "allocator", "task_system", "io_handle", "kvs">>
      [] label = "deinit_allocator" ->
            <<"allocator", "task_system", "io_handle", "kvs">>
      [] label = "deinit_system" -> <<"task_system", "io_handle", "kvs">>
      [] label = "deinit_iohandle" -> <<"io_handle", "kvs">>
      [] OTHER -> <<"kvs">>

\* kvstore_create_or_open(kvs_cfg, kvs_out, open_existing): the config is
\* const, the Store is allocated from and freed to kvs_cfg->heap_id and
\* takes no handles.  data_valid is data_validate_config's verdict.  On a
\* null trunk platform_assert(kvs->spl != NULL) fails; in a build where
\* the assert does nothing the cleanup runs with the status
\* clockcache_init left.
kvstore_create_or_open(kvs_cfg, data_valid, required, open_existing, fail, assert_active) ==
    LET base == [returned |-> TRUE, rc |-> 0, published |-> FALSE,
                 cfg |-> kvs_cfg, kvs |-> NoHandles, allocated |-> TRUE,
                 inited |-> <<>>, released |-> <<>>,
                 free_heap_id |-> NULL_HANDLE,
                 created_heap |-> NULL_HANDLE, null_deref |-> FALSE,
                 attempts |-> <<>>]
    IN  IF fail = "TYPED_ZALLOC"
        THEN [base EXCEPT !.rc = platform_status_to_int(STATUS_NO_MEMORY),
                          !.allocated = FALSE]
        ELSE IF ~ data_valid \/ required # "none"
        THEN [base EXCEPT !.rc = platform_status_to_int(STATUS_BAD_PARAM),
                          !.released = kvstore_teardown("deinit_kvhandle"),
                          !.free_heap_id = kvs_cfg.heap_id]
        ELSE IF fail \in {"io_handle_init", "task_system_create",
                          "rc_allocator", "clockcache_init"}
        THEN [base EXCEPT !.rc = platform_status_to_int(STATUS_IO_ERROR),
                          !.inited = InitedBefore(fail),
                          !.attempts = SubSeq(
                              KvstoreAcquireCalls(open_existing), 1,
                              AttemptedUpTo(fail)),
                          !.released = kvstore_teardown(FailureLabel(fail)),
                          !.free_heap_id = kvs_cfg.heap_id]
        ELSE IF fail = "trunk"
        THEN IF assert_active
             THEN [base EXCEPT !.returned = FALSE,
                               !.inited = InitedBefore(fail),
                               !.attempts =
                                   KvstoreAcquireCalls(open_existing)]
             ELSE [base EXCEPT !.rc = platform_status_to_int(STATUS_OK),
                               !.inited = InitedBefore(fail),
                               !.attempts =
                                   KvstoreAcquireCalls(open_existing),
                               !.released =
                                   kvstore_teardown(FailureLabel(fail)),
                               !.free_heap_id = kvs_cfg.heap_id]
        ELSE [base EXCEPT !.rc = platform_status_to_int(STATUS_OK),
                          !.published = TRUE,
                          !.inited = InitOrder,
                          !.attempts = KvstoreAcquireCalls(open_existing)]

\* The steps of splinterdb_close, in order.
CloseOrder ==
    <<"trunk", "cache", "allocator", "io_handle", "task_system", "heap",
      "*kvs_in">>

\* splinterdb_close giving up at the first step that reports a failure.
splinterdb_close_until_failure(failing) ==
    IF \E i \in 1..Len(CloseOrder) : CloseOrder[i] = failing
    THEN SubSeq(CloseOrder, 1,
                CHOOSE i \in 1..Len(CloseOrder) : CloseOrder[i] = failing)
    ELSE CloseOrder

\* splinterdb_close leaving the caller's pointer as it was.
splinterdb_close_keeps_pointer(failing) ==
    SubSeq(CloseOrder, 1, Len(CloseOrder) - 1)

\* splinterdb_close(kvs_in): the steps it performs when the step `failing`
\* ("none": no step) goes wrong inside its subsystem.  Every call is made
\* unconditionally and none returns a status.
splinterdb_close(failing) == CloseOrder

\* kvstore_close(kvs), given the status splinter_dismount returns: the
\* status returned and the releases made, in order.  A failed dismount
\* returns at once.
kvstore_close(dismount_status) ==
    IF ~ SUCCESS(dismount_status)
    THEN [rc |-> dismount_status, steps |-> <<"trunk">>]
    ELSE [rc |-> STATUS_OK,
          steps |-> <<"trunk", "cache", "allocator", "io_handle",
                      "task_system", "kvs">>]

\* splinterdb_close(kvs_in) when *kvs_in is NULL:
\* platform_assert(kvs != NULL) fails before any step.
splinterdb_close_on_null == [returned |-> FALSE, steps |-> <<>>]

\* The calls that take a Store.
StoreOps ==
    {"insert", "delete", "update", "lookup", "iterator_init",
     "register_thread", "deregister_thread"}

\* What a call does first with a NULL Store pointer: the writes and the
\* thread calls start with platform_assert(kvs != NULL); lookup reads
\* kvs->shim_data_cfg in validate_key_length before its assert, and
\* iterator_init reads kvs->spl without one.
store_op_on_null(op) ==
    IF op \in {"lookup", "iterator_init"} THEN "null_deref"
    ELSE "platform_assert"

(***************************************************************************)
(* Configuration defaults.  The tunables of splinterdb_config are uint64;  *)
(* reclaim_threshold, whose default is UINT64_MAX, is kept as four 16-bit  *)
(* limbs, most significant first, and io_flags, a bit mask, as the set of  *)
(* its flags.                                                              *)
(***************************************************************************)
U64(n) == <<0, 0, 0, n>>

UINT64_MAX == <<65535, 65535, 65535, 65535>>

LAIO_DEFAULT_PAGE_SIZE == 4096

LAIO_DEFAULT_EXTENT_SIZE == 128 * LAIO_DEFAULT_PAGE_SIZE

MiB_TO_B(x) == x * 1024 * 1024

Tunables ==
    {"page_size", "extent_size", "io_flags", "io_perms",
     "io_async_queue_depth", "btree_rough_count_height",
     "filter_index_size", "filter_remainder_size", "memtable_capacity",
     "fanout", "max_branches_per_node", "reclaim_threshold"}

\* The value of a field the caller left zero.
ZeroOf(f) ==
    CASE f = "io_flags" -> {}
      [] f = "reclaim_threshold" -> U64(0)
      [] OTHER -> 0

\* if (!cfg->f)
IsUnset(cfg, f) == cfg[f] = ZeroOf(f)

\* splinterdb_config_set_defaults overwriting what the caller set.
splinterdb_config_set_all_defaults(cfg) ==
    [f \in Tunables |->
        CASE f = "page_size" -> LAIO_DEFAULT_PAGE_SIZE
          [] f = "extent_size" -> LAIO_DEFAULT_EXTENT_SIZE
          [] f = "io_flags" -> {"O_RDWR", "O_CREAT"}
          [] f = "io_perms" -> 7 * 64 + 5 * 8 + 5
          [] f = "io_async_queue_depth" -> 256
          [] f = "btree_rough_count_height" -> 1
          [] f = "filter_index_size" -> 256
          [] f = "filter_remainder_size" -> 6
          [] f = "memtable_capacity" -> MiB_TO_B(24)
          [] f = "fanout" -> 8
          [] f = "max_branches_per_node" -> 24
          [] f = "reclaim_threshold" -> UINT64_MAX]

\* splinterdb_config_set_defaults(cfg): cfg afterwards.
splinterdb_config_set_defaults(cfg) ==
    [f \in Tunables |->
        IF ~ IsUnset(cfg, f) THEN cfg[f]
        ELSE CASE f = "page_size" -> LAIO_DEFAULT_PAGE_SIZE
               [] f = "extent_size" -> LAIO_DEFAULT_EXTENT_SIZE
               [] f = "io_flags" -> {"O_RDWR", "O_CREAT"}
               [] f = "io_perms" -> 7 * 64 + 5 * 8 + 5
               [] f = "io_async_queue_depth" -> 256
               [] f = "btree_rough_count_height" -> 1
               [] f = "filter_index_size" -> 256
               [] f = "filter_remainder_size" -> 6
               [] f = "memtable_capacity" -> MiB_TO_B(24)
               [] f = "fanout" -> 8
               [] f = "max_branches_per_node" -> 24
               [] f = "reclaim_threshold" -> UINT64_MAX]

\* The part of splinterdb_init_config that derives the subsystem configs:
\* the caller's config is copied into a local one, the defaults are set
\* in the copy, and the copy's fields are handed to io_config_init and
\* trunk_config_init.  The caller's config afterwards, and the arguments.
splinterdb_init_config_tunables(kvs_cfg) ==
    LET cfg == splinterdb_config_set_defaults(kvs_cfg)
    IN  [kvs_cfg |-> kvs_cfg,
         io_config_init |->
            [page_size        |-> cfg["page_size"],
             extent_size      |-> cfg["extent_size"],
             flags            |-> cfg["io_flags"],
             perms            |-> cfg["io_perms"],
             async_queue_size |-> cfg["io_async_queue_depth"]],
         trunk_config_init |->
            [memtable_capacity        |-> cfg["memtable_capacity"],
             fanout                   |-> cfg["fanout"],
             max_branches_per_node    |-> cfg["max_branches_per_node"],
             btree_rough_count_height |-> cfg["btree_rough_count_height"],
             filter_remainder_size    |-> cfg["filter_remainder_size"],
             filter_index_size        |-> cfg["filter_index_size"],
             reclaim_threshold        |-> cfg["reclaim_threshold"]]]

\* A config with every tunable left zero.
ZeroConfig == [f \in Tunables |-> ZeroOf(f)]

(***************************************************************************)
(* Thread registry.  The task system is the engine's: it is kept as the    *)
(* set of threads that hold a scratch buffer in one of its slots.          *)
(***************************************************************************)
\* The thread that opens the store, and two others.
Threads == {"opener", "t1", "t2"}

\* task_system_create leaves the calling thread registered.
task_system_create == {"opener"}

task_register_this_thread(task_sys, tid) == task_sys \cup {tid}

task_deregister_this_thread(task_sys, tid) == task_sys \ {tid}

\* Whether an engine call made by thread tid takes the assertion path of
\* a debug build: the thread has no scratch buffer.
engine_call_asserts(task_sys, tid) == tid \notin task_sys

\* splinterdb_register_thread(kvs) called by thread tid: kvs->task_sys
\* afterwards.
splinterdb_register_thread(task_sys, tid) ==
    task_register_this_thread(task_sys, tid)

\* splinterdb_deregister_thread that leaves the task system alone.
splinterdb_deregister_thread_noop(task_sys, tid) == task_sys

\* splinterdb_deregister_thread(kvs) called by thread tid.
splinterdb_deregister_thread(task_sys, tid) ==
    task_deregister_this_thread(task_sys, tid)

\* The task system slot by slot.  A slot holds the thread it belongs to
\* and the size of the scratch buffer attached to it; a free slot holds
\* neither.  MAX_THREADS is the engine's compile-time ceiling.
MAX_THREADS == 3

trunk_get_scratch_size == 1

FreeSlot == [tid |-> "none", scratch |-> 0]

OccupiedSlots(slots) == {i \in DOMAIN slots : slots[i] # FreeSlot}

\* task_system_create: the creating thread takes the first slot.
task_system_create_slots ==
    [i \in 1..MAX_THREADS |->
        IF i = 1 THEN [tid |-> "opener", scratch |-> trunk_get_scratch_size]
        ELSE FreeSlot]

\* task_register_this_thread(ts, scratch_size) called by thread tid: the
\* lowest free slot gets the thread and a scratch buffer of that size;
\* with no free slot the assert fails.
task_register_slot(slots, tid, scratch_size) ==
    LET free == DOMAIN slots \ OccupiedSlots(slots)
    IN  IF free = {}
        THEN [asserted |-> TRUE, slots |-> slots]
        ELSE LET i == CHOOSE j \in free : \A k \in free : j <= k
             IN  [asserted |-> FALSE,
                  slots |-> [slots EXCEPT
                               ![i] = [tid |-> tid,
                                       scratch |-> scratch_size]]]

\* task_deregister_this_thread(ts) called by thread tid: the thread's
\* scratch buffer is freed and its slot given back.
task_deregister_slot(slots, tid) ==
    [i \in DOMAIN slots |-> IF slots[i].tid = tid THEN FreeSlot ELSE slots[i]]

\* splinterdb_register_thread / kvstore_register_thread called by tid.
register_thread(slots, tid) ==
    task_register_slot(slots, tid, trunk_get_scratch_size)

\* A deregister that leaves the task system as it was.
deregister_thread_leaks(slots, tid) == slots

\* splinterdb_deregister_thread / kvstore_deregister_thread called by tid.
deregister_thread(slots, tid) == task_deregister_slot(slots, tid)

\* The calls that reach the engine: trunk_insert, trunk_lookup,
\* trunk_range_iterator_init, iterator_advance.
ThreadOps ==
    {"insert", "delete", "update", "lookup", "iterator_init",
     "iterator_next"}

(***************************************************************************)
(* State.                                                                  *)
(***************************************************************************)
VARIABLES
    kvs_out,    \* the caller's store pointer: "NULL" or "kvs"
    mounted_by, \* how the mounted store was opened: "none", "create", "open"
    spl,        \* the mounted trunk's entries
    disk,       \* the device as the last unmount left it
    result,     \* the caller's splinterdb_lookup_result
    value_out,  \* the caller's slice, written by lookup_result_value
    last,       \* the last call made: [op, key, rc]
    lastWrite,  \* per key, the last successful write since the store's creation
    dirty,      \* whether a write succeeded since the store was mounted
    iter,       \* the caller's iterator: the wrapper, or NullIterator
    it_state,   \* "none", or what the iteration loop does next
    seen,       \* the <<key, value>> pairs get_current has returned
    it_heap,    \* the last iterator_init's wrapper, and what it freed
    ck_pc,      \* codec harness: "start", "encoded", "decoded"
    ck_key,     \* the logical key handed to encode_key
    ck_before,  \* the output buffer before the call
    ck_buf,     \* the output buffer
    ck_rc,      \* encode_key's return code
    ck_dec,     \* the slice decoded from the buffer
    cmp_pc,     \* comparator harness: "start", "encoded", "compared"
    cmp_a,      \* the first logical key
    cmp_b,      \* the second logical key
    cmp_raw,    \* the two physical keys
    cmp_shim,   \* what splinterdb_shim_key_compare returned for them
    msg_pc,     \* message harness: "start", "encoded", "decoded", "classed"
    msg_in,     \* encode_message's arguments, and the byte dst held
    msg_buf,    \* the destination buffer
    msg_enc,    \* encode_message's outcome: [rc, encoded_len, overflow]
    msg_dec,    \* decode_message's outcome: [rc, value]
    msg_class,  \* message_class's outcome: [class, asserted]
    dflt,       \* defaults harness: [pc, before, kvs_cfg, out]
    rng,        \* key-range harness: [pc, key_size, key, cfg, in_range]
    thr,        \* threads: [task_sys, phase, last, alive]
    shm,        \* shim harness: [pc, app, v, out]
    tsk,        \* thread slots: [slots, registered, last, alive]
    kvs_cfg,    \* the caller's splinterdb_config: [use_shmem, heap_handle, heap_id]
    stores,     \* per caller pointer: the Store it points to, if any
    live_heaps, \* the heaps created and not destroyed
    next_heap,  \* the handle the next heap creation returns
    objs,       \* the Store objects allocated so far, each with its state
    call        \* the last lifecycle call: its arguments and outcome

storeVars == <<kvs_out, mounted_by, spl, disk, lastWrite, dirty>>

resultVars == <<result, value_out>>

iterVars == <<iter, it_state, seen, it_heap>>

codecVars == <<ck_pc, ck_key, ck_before, ck_buf, ck_rc, ck_dec>>

cmpVars == <<cmp_pc, cmp_a, cmp_b, cmp_raw, cmp_shim>>

msgVars == <<msg_pc, msg_in, msg_buf, msg_enc, msg_dec, msg_class>>

auxVars == <<dflt, rng, thr, shm, tsk>>

harnessVars == <<codecVars, cmpVars, msgVars, auxVars>>

lifeVars == <<kvs_cfg, stores, live_heaps, next_heap, objs, call>>

vars == <<storeVars, resultVars, last, iterVars, harnessVars, lifeVars>>

(***************************************************************************)
(* Inputs.                                                                 *)
(***************************************************************************)
\* Keys for the point operations: three of valid length, one too long
\* for data_config.key_size.
PointKeys == {<<>>, <<0>>, <<1, 0>>, <<1, 1, 1>>}

\* Keys written before iterating.
IterKeys == {<<>>, <<0>>, <<0, 0>>, <<1>>}

\* Start keys for splinterdb_iterator_init: the null slice, stored and
\* unstored keys, and keys longer than key_size.
IterStartKeys ==
    {NULL_SLICE, <<>>, <<0>>, <<0, 0>>, <<0, 1>>, <<1>>, <<1, 1, 1>>,
     <<1, 1, 1, 1>>}

Keys == PointKeys \cup IterKeys

Values == {<<>>, <<7>>}

\* Statuses the engine's iterator calls can return.
EngineStatuses == {STATUS_OK, STATUS_IO_ERROR}

NoWrite == [kind |-> "none", value |-> NULL_SLICE]

Call(op, key, rc) == [op |-> op, key |-> key, rc |-> rc]

(***************************************************************************)
(* Initial states.                                                         *)
(***************************************************************************)
StoreClosed ==
    /\ kvs_out = "NULL"
    /\ mounted_by = "none"
    /\ spl = EmptyTrunk
    /\ disk = NoImage
    /\ lastWrite = [k \in Keys |-> NoWrite]
    /\ dirty = FALSE

\* A store just created by splinterdb_create.
StoreCreated ==
    /\ kvs_out = "kvs"
    /\ mounted_by = "create"
    /\ spl = EmptyTrunk
    /\ disk = NoImage
    /\ lastWrite = [k \in Keys |-> NoWrite]
    /\ dirty = FALSE

ResultIdle ==
    /\ result = splinterdb_lookup_result_init
    /\ value_out = NULL_SLICE

IterIdle ==
    /\ iter = NullIterator
    /\ it_state = "none"
    /\ seen = <<>>
    /\ it_heap = [wrapper |-> "none", freed |-> "nothing"]

CodecIdle ==
    /\ ck_pc = "start"
    /\ ck_key = <<>>
    /\ ck_before = ZeroKeyBuffer
    /\ ck_buf = ZeroKeyBuffer
    /\ ck_rc = 0
    /\ ck_dec = <<>>

CompareIdle ==
    /\ cmp_pc = "start"
    /\ cmp_a = <<>>
    /\ cmp_b = <<>>
    /\ cmp_raw = <<ZeroKeyBuffer, ZeroKeyBuffer>>
    /\ cmp_shim = 0

MessageIdle ==
    /\ msg_pc = "start"
    /\ msg_in = [type |-> MESSAGE_TYPE_INSERT, value |-> <<>>, cap |-> 0,
                 fill |-> 0]
    /\ msg_buf = <<>>
    /\ msg_enc = [rc |-> 0, encoded_len |-> 0, overflow |-> FALSE]
    /\ msg_dec = [rc |-> 0, value |-> NULL_SLICE]
    /\ msg_class = [class |-> MESSAGE_TYPE_INVALID, asserted |-> FALSE]

DefaultsIdle ==
    dflt = [pc |-> "start", before |-> ZeroConfig, kvs_cfg |-> ZeroConfig,
            out |-> splinterdb_init_config_tunables(ZeroConfig)]

RangeIdle ==
    rng = [pc |-> "start", key_size |-> KeySize, key |-> <<>>,
           cfg |-> app_data_cfg, in_range |-> FALSE]

\* A mounted store no thread but the opener has touched.
ThreadIdle ==
    thr = [task_sys |-> task_system_create,
           phase    |-> [t \in Threads |->
                           IF t = "opener" THEN "registered" ELSE "new"],
           last     |-> [tid |-> "opener", op |-> "open",
                         asserted |-> FALSE],
           alive    |-> TRUE]

ShimIdle ==
    shm = [pc  |-> "start",
           app |-> AppDataConfig(KeySize, <<>>, app_data_cfg.max_key,
                                 "platform_hash32", "message_to_string"),
           v   |-> [asserted |-> FALSE, status |-> STATUS_OK],
           out |-> [rc |-> 0, out_shim |-> ZeroShim]]

\* A mounted store whose task system holds the opener only.
SlotsIdle ==
    tsk = [slots      |-> task_system_create_slots,
           registered |-> {"opener"},
           last       |-> [tid |-> "opener", op |-> "open",
                           asserted |-> FALSE],
           alive      |-> TRUE]

AuxIdle ==
    DefaultsIdle /\ RangeIdle /\ ThreadIdle /\ ShimIdle /\ SlotsIdle

\* The pure-function harnesses at rest.
HarnessIdle == CodecIdle /\ CompareIdle /\ MessageIdle /\ AuxIdle

\* The caller's pointers to Stores.
StorePtrs == {"kvs1", "kvs2"}

NoStore == [ptr |-> "NULL", api |-> "none", heap_handle |-> NULL_HANDLE,
            heap_id |-> NULL_HANDLE, id |-> 0]

NoCall ==
    [op |-> "none", api |-> "none", p |-> "none",
     before |-> [use_shmem |-> FALSE, heap_handle |-> NULL_HANDLE,
                 heap_id |-> NULL_HANDLE],
     data_cfg |-> app_data_cfg, required |-> "none", fail |-> "none",
     out |-> [returned |-> TRUE, rc |-> 0, published |-> FALSE,
              cfg |-> [use_shmem |-> FALSE, heap_handle |-> NULL_HANDLE,
                       heap_id |-> NULL_HANDLE],
              kvs |-> NoHandles, allocated |-> FALSE, inited |-> <<>>,
              released |-> <<>>, free_heap_id |-> NULL_HANDLE,
              created_heap |-> NULL_HANDLE, null_deref |-> FALSE,
              attempts |-> <<>>]]

\* Resource bookkeeping at rest: a config without shared memory or heap,
\* no Store.
LifeIdle ==
    /\ kvs_cfg = [use_shmem |-> FALSE, heap_handle |-> NULL_HANDLE,
                  heap_id |-> NULL_HANDLE]
    /\ stores = [p \in StorePtrs |-> NoStore]
    /\ live_heaps = {}
    /\ next_heap = 1
    /\ objs = <<>>
    /\ call = NoCall

(***************************************************************************)
(* Point operations and lifecycle as actions.                              *)
(***************************************************************************)
\* The calls below need a mounted store (platform_assert(kvs != NULL)) and,
\* for writes and close, no iteration in progress.
Mounted == kvs_out = "kvs"

\* debug_assert(validate_key_in_range(kvs, key)) once the length check
\* has passed: a call that fails it does not return.
DebugAsserts(key) ==
    validate_key_length(slice_length(key)) = 0 => validate_key_in_range(key)

Insert(key, value) ==
    /\ Mounted
    /\ ~ iter.live
    /\ DebugAsserts(key)
    /\ LET r == splinterdb_insert(spl, key, value)
       IN  /\ spl' = r.spl
           /\ last' = Call("insert", key, r.rc)
           /\ lastWrite' = IF r.rc = 0
                           THEN [lastWrite EXCEPT
                                   ![key] = [kind |-> "ins", value |-> value]]
                           ELSE lastWrite
           /\ dirty' = (dirty \/ r.rc = 0)
    /\ UNCHANGED <<kvs_out, mounted_by, disk, resultVars, iterVars, harnessVars, lifeVars>>

Delete(key) ==
    /\ Mounted
    /\ ~ iter.live
    /\ DebugAsserts(key)
    /\ LET r == splinterdb_delete(spl, key)
       IN  /\ spl' = r.spl
           /\ last' = Call("delete", key, r.rc)
           /\ lastWrite' = IF r.rc = 0
                           THEN [lastWrite EXCEPT
                                   ![key] = [kind |-> "del",
                                             value |-> NULL_SLICE]]
                           ELSE lastWrite
           /\ dirty' = (dirty \/ r.rc = 0)
    /\ UNCHANGED <<kvs_out, mounted_by, disk, resultVars, iterVars, harnessVars, lifeVars>>

Update(key, delta) ==
    /\ Mounted
    /\ ~ iter.live
    /\ DebugAsserts(key)
    /\ LET r == splinterdb_update(spl, key, delta)
       IN  /\ spl' = r.spl
           /\ last' = Call("update", key, r.rc)
    /\ UNCHANGED <<kvs_out, mounted_by, disk, lastWrite, dirty, resultVars,
                   iterVars, harnessVars, lifeVars>>

Lookup(key) ==
    /\ Mounted
    /\ LET r == splinterdb_lookup(spl, key, result)
       IN  /\ result' = r.result
           /\ last' = Call("lookup", key, r.rc)
    /\ UNCHANGED <<storeVars, value_out, iterVars, harnessVars, lifeVars>>

LookupResultInit ==
    /\ result' = splinterdb_lookup_result_init
    /\ last' = Call("lookup_result_init", NULL_SLICE, 0)
    /\ UNCHANGED <<storeVars, value_out, iterVars, harnessVars, lifeVars>>

LookupResultValue ==
    /\ LET r == splinterdb_lookup_result_value(result, value_out)
       IN  /\ value_out' = r.value
           /\ last' = Call("lookup_result_value", NULL_SLICE, r.rc)
    /\ UNCHANGED <<storeVars, result, iterVars, harnessVars, lifeVars>>

\* splinterdb_create / splinterdb_open.  A store that was never cleanly
\* unmounted cannot be mounted.  rc_allocator_init formats the device.
CreateOrOpen(open_existing, fail) ==
    /\ kvs_out = "NULL"
    /\ (open_existing /\ ~ disk.valid) => fail # "none"
    /\ LET r == splinterdb_create_or_open(open_existing, fail)
       IN  /\ kvs_out' = IF r.published THEN "kvs" ELSE kvs_out
           /\ mounted_by' = IF r.published
                            THEN (IF open_existing THEN "open" ELSE "create")
                            ELSE mounted_by
           /\ spl' = IF r.published
                     THEN trunk_mount_or_create(open_existing, disk)
                     ELSE spl
           /\ disk' = IF r.published \/ r.allocator_init THEN NoImage
                      ELSE disk
           /\ lastWrite' = IF r.allocator_init
                           THEN [k \in Keys |-> NoWrite]
                           ELSE lastWrite
           /\ last' = Call(IF open_existing THEN "open" ELSE "create",
                           NULL_SLICE, r.rc)
    /\ dirty' = FALSE
    /\ UNCHANGED <<resultVars, iterVars, harnessVars, lifeVars>>

\* splinterdb_close: trunk_unmount writes the store back, the other
\* subsystems are released, the caller's pointer is nulled.
Close ==
    /\ Mounted
    /\ ~ iter.live
    /\ disk' = [valid |-> TRUE, data |-> spl]
    /\ spl' = EmptyTrunk
    /\ kvs_out' = "NULL"
    /\ mounted_by' = "none"
    /\ dirty' = FALSE
    /\ last' = Call("close", NULL_SLICE, 0)
    /\ UNCHANGED <<lastWrite, resultVars, iterVars, harnessVars, lifeVars>>

Init ==
    /\ StoreClosed
    /\ ResultIdle
    /\ last = Call("none", NULL_SLICE, 0)
    /\ IterIdle
    /\ HarnessIdle
    /\ LifeIdle

Next ==
    \/ \E k \in PointKeys, v \in Values : Insert(k, v)
    \/ \E k \in PointKeys : Delete(k)
    \/ \E k \in PointKeys, d \in Values : Update(k, d)
    \/ \E k \in PointKeys : Lookup(k)
    \/ LookupResultInit
    \/ LookupResultValue
    \/ \E o \in BOOLEAN, f \in FailPoints : CreateOrOpen(o, f)
    \/ Close

Spec == Init /\ [][Next]_vars

(***************************************************************************)
(* Properties of the point operations and the lifecycle (under Spec).      *)
(***************************************************************************)
ValidLength(key) == slice_length(key) <= app_data_cfg.key_size

\* What the caller reads from a result: found, and the value
\* lookup_result_value hands out.
Found(res) == splinterdb_lookup_found(res)

ValueOf(res) == splinterdb_lookup_result_value(res, NULL_SLICE).value

\* C1: a lookup of a key whose last successful write was insert(k, v)
\* returns 0 with found = true and a value equal to v, the value of the
\* most recent insert.
InsertLookupLaw ==
    (last.op = "lookup" /\ lastWrite[last.key].kind = "ins")
       => /\ last.rc = 0
          /\ Found(result)
          /\ ValueOf(result) = lastWrite[last.key].value

InsertLookupWitness ==
    /\ last.op = "lookup"
    /\ last.key = <<0>>
    /\ lastWrite[<<0>>] = [kind |-> "ins", value |-> <<7>>]
    /\ lastWrite[<<>>].kind = "ins"
    /\ Found(result)
    /\ ValueOf(result) = <<7>>

ReopenPersistence ==
    (last.op = "lookup" /\ mounted_by = "open" /\ ~ dirty
        /\ ValidLength(last.key))
       => /\ last.rc = 0
          /\ lastWrite[last.key].kind = "ins"
                => /\ Found(result)
                   /\ ValueOf(result) = lastWrite[last.key].value
          /\ lastWrite[last.key].kind \in {"del", "none"}
                => ~ Found(result)

ReopenPersistenceWitness ==
    /\ last.op = "lookup"
    /\ mounted_by = "open"
    /\ ~ dirty
    /\ lastWrite[last.key] = [kind |-> "ins", value |-> <<7>>]
    /\ Found(result)
    /\ ValueOf(result) = <<7>>
    /\ \E k \in Keys : lastWrite[k].kind = "del"

\* C6: an insert, delete or update with a key longer than key_size returns
\* EINVAL (22) and leaves the store as it was; with a key of valid length
\* the call is not rejected.
OverlongKeyRejected ==
    [][last'.op \in {"insert", "delete", "update"}
         => IF ValidLength(last'.key)
            THEN last'.rc # EINVAL
            ELSE /\ last'.rc = EINVAL
                 /\ spl' = spl
                 /\ disk' = disk]_vars

OverlongKeyWitness ==
    /\ last.op \in {"insert", "delete", "update"}
    /\ ~ ValidLength(last.key)
    /\ last.rc = EINVAL
    /\ spl # EmptyTrunk

\* C7: a lookup of an absent key of valid length returns 0 with
\* found = false; lookup_result_value returns EINVAL exactly when found is
\* false and then leaves the caller's slice alone, and returns 0 with the
\* result's value when found is true.
NotFoundIsNotAnError ==
    [][/\ (last'.op = "lookup" /\ ValidLength(last'.key)
              /\ lastWrite[last'.key].kind # "ins")
          => (last'.rc = 0 /\ ~ Found(result'))
       /\ last'.op = "lookup_result_value"
          => IF Found(result)
             THEN /\ last'.rc = 0
                  /\ value_out' = merge_accumulator_to_value(result)
             ELSE /\ last'.rc = EINVAL
                  /\ value_out' = value_out]_vars

\* lookup_result_value failed on a result that holds nothing, and the
\* slice an earlier call had written is still there.
NotFoundWitness ==
    /\ last.op = "lookup_result_value"
    /\ last.rc = EINVAL
    /\ ~ Found(result)
    /\ value_out = <<7>>

\* C8: a lookup that returns 0 leaves in the result the outcome for its
\* own key, whatever the result held before; a lookup rejected by the
\* key-length check leaves the result as it was.
ResultReuse ==
    [][last'.op = "lookup"
         => IF last'.rc = 0
            THEN /\ Found(result') <=> lastWrite[last'.key].kind = "ins"
                 /\ Found(result')
                       => ValueOf(result') = lastWrite[last'.key].value
            ELSE /\ ~ ValidLength(last'.key)
                 /\ result' = result]_vars

\* A rejected lookup has left an earlier hit in place.
ResultReuseWitness ==
    /\ last.op = "lookup"
    /\ last.rc = EINVAL
    /\ Found(result)
    /\ ValueOf(result) = <<7>>

(***************************************************************************)
(* The range iterator as actions.  The caller runs the usual loop:         *)
(* valid, then get_current, then next, until valid returns false.          *)
(***************************************************************************)
IterInit(start_key, malloc_ok, status) ==
    /\ Mounted
    /\ ~ iter.live
    /\ LET r == splinterdb_iterator_init(spl, iter, start_key, malloc_ok,
                                         status)
       IN  /\ iter' = r.iter
           /\ it_heap' = [wrapper |-> r.wrapper, freed |-> r.freed]
           /\ it_state' = IF r.rc = 0 THEN "fresh" ELSE "none"
           /\ last' = Call("iterator_init", start_key, r.rc)
    /\ seen' = <<>>
    /\ UNCHANGED <<storeVars, resultVars, harnessVars, lifeVars>>

IterValid(status) ==
    /\ iter.live
    /\ it_state = "fresh"
    /\ LET r == splinterdb_iterator_valid(iter, status)
       IN  /\ iter' = r.kvi
           /\ it_state' = IF r.valid THEN "valid" ELSE "end"
           /\ last' = Call("iterator_valid", NULL_SLICE,
                           splinterdb_iterator_status(r.kvi))
    /\ UNCHANGED <<storeVars, resultVars, seen, it_heap, harnessVars, lifeVars>>

IterGetCurrent ==
    /\ iter.live
    /\ it_state = "valid"
    /\ seen' = Append(seen, splinterdb_iterator_get_current(iter))
    /\ it_state' = "read"
    /\ last' = Call("iterator_get_current", NULL_SLICE, 0)
    /\ UNCHANGED <<storeVars, resultVars, iter, it_heap, harnessVars, lifeVars>>

IterNext(status) ==
    /\ iter.live
    /\ it_state = "read"
    /\ iter' = splinterdb_iterator_next(iter, status)
    /\ it_state' = "fresh"
    /\ last' = Call("iterator_next", NULL_SLICE, 0)
    /\ UNCHANGED <<storeVars, resultVars, seen, it_heap, harnessVars, lifeVars>>

\* splinterdb_iterator_deinit
IterDeinit ==
    /\ iter.live
    /\ iter' = NullIterator
    /\ it_state' = "none"
    /\ seen' = <<>>
    /\ it_heap' = [wrapper |-> "freed", freed |-> "wrapper"]
    /\ last' = Call("iterator_deinit", NULL_SLICE, 0)
    /\ UNCHANGED <<storeVars, resultVars, harnessVars, lifeVars>>

IterSpecInit ==
    /\ StoreCreated
    /\ ResultIdle
    /\ last = Call("create", NULL_SLICE, 0)
    /\ IterIdle
    /\ HarnessIdle
    /\ LifeIdle

IterSpecNext ==
    \/ \E k \in IterKeys, v \in Values : Insert(k, v)
    \/ \E k \in IterKeys : Delete(k)
    \/ \E s \in IterStartKeys, m \in BOOLEAN, st \in EngineStatuses :
          IterInit(s, m, st)
    \/ \E st \in EngineStatuses : IterValid(st)
    \/ IterGetCurrent
    \/ \E st \in EngineStatuses : IterNext(st)
    \/ IterDeinit

SpecIter == IterSpecInit /\ [][IterSpecNext]_vars

(***************************************************************************)
(* Properties of the range iterator (under SpecIter).                      *)
(***************************************************************************)
\* The <<key, value>> pairs of a set, smallest key first under the
\* application's comparator.
RECURSIVE LogicalOrder(_)
LogicalOrder(pairs) ==
    IF pairs = {} THEN <<>>
    ELSE LET m == CHOOSE x \in pairs :
                     \A y \in pairs : key_compare(x[1], y[1]) <= 0
         IN  <<m>> \o LogicalOrder(pairs \ {m})

\* What an iteration from start_key must yield: the keys whose last write
\* is an insert and that are not below the start key, each with that
\* insert's value.
ExpectedFrom(start_key) ==
    LogicalOrder({<<k, lastWrite[k].value>> :
                    k \in {x \in Keys :
                             /\ lastWrite[x].kind = "ins"
                             /\ \/ slice_is_null(start_key)
                                \/ key_compare(x, start_key) >= 0}})

IsPrefix(s, t) ==
    /\ Len(s) <= Len(t)
    /\ \A i \in 1..Len(s) : s[i] = t[i]

\* C3: an iteration from the null start key yields the inserted keys in
\* increasing app_compare order, each once with its last written value,
\* and nothing else; when valid has returned false with status 0 it has
\* yielded all of them, a key equal to min_key included.
IteratorCoverage ==
    (iter.live /\ slice_is_null(iter.start))
       => /\ IsPrefix(seen, ExpectedFrom(NULL_SLICE))
          /\ (it_state = "end" /\ splinterdb_iterator_status(iter) = 0)
                => seen = ExpectedFrom(NULL_SLICE)

IteratorCoverageWitness ==
    /\ iter.live
    /\ slice_is_null(iter.start)
    /\ it_state = "end"
    /\ splinterdb_iterator_status(iter) = 0
    /\ Len(seen) = 4
    /\ seen[1][1] = <<>>
    /\ seen[2] = <<(<<0>>), (<<7>>)>>

\* C4: an iteration from a non-null start key s hands the engine the
\* encoded s (an empty s too), and yields, in order, exactly the stored
\* keys k with app_compare(k, s) >= 0: the first one yielded is the
\* smallest such key, and none is yielded when there is none.
IteratorStartBound ==
    (iter.live /\ ~ slice_is_null(iter.start))
       => /\ iter.min_key
                = encode_key(MAX_KEY_SIZE, ZeroKeyBuffer, iter.start).buf
          /\ IsPrefix(seen, ExpectedFrom(iter.start))
          /\ (it_state = "end" /\ splinterdb_iterator_status(iter) = 0)
                => seen = ExpectedFrom(iter.start)

IteratorStartBoundWitness ==
    /\ iter.live
    /\ iter.start = <<0, 0>>
    /\ it_state = "end"
    /\ splinterdb_iterator_status(iter) = 0
    /\ lastWrite[<<>>].kind = "ins"
    /\ lastWrite[<<0>>].kind = "ins"
    /\ Len(seen) = 2
    /\ seen[1][1] = <<0, 0>>
    /\ seen[2][1] = <<1>>

(***************************************************************************)
(* The codec on its own: every logical key up to one byte longer than the  *)
(* slot allows, into every uniformly pre-filled buffer.                    *)
(***************************************************************************)
CodecByte == 0..CodecMaxByte

CodecKeys == UNION {[1..n -> CodecByte] : n \in 0..MAX_KEY_SIZE}

CodecBuffers == {[i \in 1..MAX_KEY_SIZE |-> b] : b \in CodecByte}

CodecInit ==
    /\ StoreClosed
    /\ ResultIdle
    /\ last = Call("none", NULL_SLICE, 0)
    /\ IterIdle
    /\ ck_pc = "start"
    /\ ck_key \in CodecKeys
    /\ ck_buf \in CodecBuffers
    /\ ck_before = ck_buf
    /\ ck_rc = 0
    /\ ck_dec = <<>>
    /\ CompareIdle
    /\ MessageIdle
    /\ AuxIdle
    /\ LifeIdle

CodecEncode ==
    /\ ck_pc = "start"
    /\ LET r == encode_key(MAX_KEY_SIZE, ck_buf, ck_key)
       IN  /\ ck_rc' = r.rc
           /\ ck_buf' = r.buf
    /\ ck_pc' = "encoded"
    /\ UNCHANGED <<ck_key, ck_before, ck_dec>>
    /\ UNCHANGED <<storeVars, resultVars, last, iterVars, cmpVars, msgVars, auxVars,
                   lifeVars>>

CodecDecode ==
    /\ ck_pc = "encoded"
    /\ ck_rc = 0
    /\ ck_dec' = decode_key(ck_buf)
    /\ ck_pc' = "decoded"
    /\ UNCHANGED <<ck_key, ck_before, ck_buf, ck_rc>>
    /\ UNCHANGED <<storeVars, resultVars, last, iterVars, cmpVars, msgVars, auxVars,
                   lifeVars>>

CodecNext == CodecEncode \/ CodecDecode

SpecCodec == CodecInit /\ [][CodecNext]_vars

\* C9: for every logical key of at most SPLINTERDB_MAX_KEY_SIZE bytes
\* encode_key succeeds, and decoding the physical key it produced gives
\* back the key, byte for byte and with the same length.
KeyRoundTrip ==
    /\ (ck_pc # "start" /\ Len(ck_key) <= SPLINTERDB_MAX_KEY_SIZE)
          => ck_rc = 0
    /\ ck_pc = "decoded"
          => (ck_dec = ck_key /\ Len(ck_dec) = Len(ck_key))

KeyRoundTripWitness ==
    /\ ck_pc = "decoded"
    /\ ck_key = <<>>
    /\ ck_dec = <<>>
    /\ ck_before # ZeroKeyBuffer

\* C10: encode_key with a key longer than SPLINTERDB_MAX_KEY_SIZE returns
\* EINVAL and leaves every byte of the output buffer as it was.
OverlongEncodeRejected ==
    (ck_pc = "encoded" /\ Len(ck_key) > SPLINTERDB_MAX_KEY_SIZE)
       => (ck_rc = EINVAL /\ ck_buf = ck_before)

OverlongEncodeWitness ==
    /\ ck_pc = "encoded"
    /\ Len(ck_key) > SPLINTERDB_MAX_KEY_SIZE
    /\ ck_rc = EINVAL
    /\ ck_buf # ZeroKeyBuffer

(***************************************************************************)
(* The shim comparator on its own: every pair of logical keys that fit     *)
(* the slot, encoded and handed to splinterdb_shim_key_compare.            *)
(***************************************************************************)
CompareKeys ==
    UNION {[1..n -> CodecByte] : n \in 0..SPLINTERDB_MAX_KEY_SIZE}

CompareInit ==
    /\ StoreClosed
    /\ ResultIdle
    /\ last = Call("none", NULL_SLICE, 0)
    /\ IterIdle
    /\ CodecIdle
    /\ cmp_pc = "start"
    /\ cmp_a \in CompareKeys
    /\ cmp_b \in CompareKeys
    /\ cmp_raw = <<ZeroKeyBuffer, ZeroKeyBuffer>>
    /\ cmp_shim = 0
    /\ MessageIdle
    /\ AuxIdle
    /\ LifeIdle

CompareEncode ==
    /\ cmp_pc = "start"
    /\ cmp_raw' = <<encode_key(MAX_KEY_SIZE, ZeroKeyBuffer, cmp_a).buf,
                    encode_key(MAX_KEY_SIZE, ZeroKeyBuffer, cmp_b).buf>>
    /\ cmp_pc' = "encoded"
    /\ UNCHANGED <<cmp_a, cmp_b, cmp_shim>>
    /\ UNCHANGED <<storeVars, resultVars, last, iterVars, codecVars, msgVars, auxVars,
                   lifeVars>>

CompareCall ==
    /\ cmp_pc = "encoded"
    /\ cmp_shim' = splinterdb_shim_key_compare(cmp_raw[1], cmp_raw[2])
    /\ cmp_pc' = "compared"
    /\ UNCHANGED <<cmp_a, cmp_b, cmp_raw>>
    /\ UNCHANGED <<storeVars, resultVars, last, iterVars, codecVars, msgVars, auxVars,
                   lifeVars>>

CompareNext == CompareEncode \/ CompareCall

SpecCompare == CompareInit /\ [][CompareNext]_vars

Sign(n) == IF n < 0 THEN -1 ELSE IF n > 0 THEN 1 ELSE 0

\* C11: for all logical keys a, b that fit the slot, the shim comparator
\* on encode(a), encode(b) has the sign of the application's comparator
\* on a, b.
ShimOrderIsAppOrder ==
    cmp_pc = "compared"
       => Sign(cmp_shim) = Sign(key_compare(cmp_a, cmp_b))

\* A pair the length header alone would order the other way round.
ShimOrderWitness ==
    /\ cmp_pc = "compared"
    /\ cmp_a = <<1>>
    /\ cmp_b = <<0, 0>>
    /\ cmp_raw[1][1] < cmp_raw[2][1]
    /\ cmp_shim > 0

(***************************************************************************)
(* The message codec on its own: every type and value into every buffer    *)
(* capacity, then decode_message and message_class on the encoded bytes.   *)
(***************************************************************************)
MsgCapacity == 3

MessageTypes ==
    {MESSAGE_TYPE_INSERT, MESSAGE_TYPE_DELETE, MESSAGE_TYPE_UPDATE}

MessageValues == UNION {[1..n -> CodecByte] : n \in 0..MsgCapacity}

MessageInit ==
    /\ StoreClosed
    /\ ResultIdle
    /\ last = Call("none", NULL_SLICE, 0)
    /\ IterIdle
    /\ CodecIdle
    /\ CompareIdle
    /\ AuxIdle
    /\ LifeIdle
    /\ msg_pc = "start"
    /\ msg_in \in [type : MessageTypes, value : MessageValues,
                   cap : 0..MsgCapacity, fill : CodecByte]
    /\ msg_buf = [i \in 1..msg_in.cap |-> msg_in.fill]
    /\ msg_enc = [rc |-> 0, encoded_len |-> 0, overflow |-> FALSE]
    /\ msg_dec = [rc |-> 0, value |-> NULL_SLICE]
    /\ msg_class = [class |-> MESSAGE_TYPE_INVALID, asserted |-> FALSE]

MessageEncode ==
    /\ msg_pc = "start"
    /\ LET r == encode_message(msg_in.type, msg_in.value, msg_in.cap,
                               msg_buf, msg_enc.encoded_len)
       IN  /\ msg_buf' = r.buf
           /\ msg_enc' = [rc |-> r.rc, encoded_len |-> r.encoded_len,
                          overflow |-> r.overflow]
    /\ msg_pc' = "encoded"
    /\ UNCHANGED <<msg_in, msg_dec, msg_class>>
    /\ UNCHANGED <<storeVars, resultVars, last, iterVars, codecVars, cmpVars,
                   auxVars, lifeVars>>

\* decode_message on the encoded_len bytes encode_message produced.
MessageDecode ==
    /\ msg_pc = "encoded"
    /\ msg_enc.rc = 0
    /\ msg_dec' = decode_message(msg_enc.encoded_len, msg_buf)
    /\ msg_pc' = "decoded"
    /\ UNCHANGED <<msg_in, msg_buf, msg_enc, msg_class>>
    /\ UNCHANGED <<storeVars, resultVars, last, iterVars, codecVars, cmpVars,
                   auxVars, lifeVars>>

MessageClass ==
    /\ msg_pc = "decoded"
    /\ msg_class' = message_class(msg_enc.encoded_len, msg_buf)
    /\ msg_pc' = "classed"
    /\ UNCHANGED <<msg_in, msg_buf, msg_enc, msg_dec>>
    /\ UNCHANGED <<storeVars, resultVars, last, iterVars, codecVars, cmpVars,
                   auxVars, lifeVars>>

MessageNext == MessageEncode \/ MessageDecode \/ MessageClass

SpecMessage == MessageInit /\ [][MessageNext]_vars

\* C12: for every type in {Insert, Delete, Update} and every value that
\* fits (|v| <= capacity - 1), encode_message succeeds, decode_message
\* returns a slice equal to v with its length, and message_class returns
\* the type.
MessageRoundTrip ==
    Len(msg_in.value) <= msg_in.cap - 1
       => /\ msg_pc # "start" => msg_enc.rc = 0
          /\ msg_pc \in {"decoded", "classed"}
                => /\ msg_dec.rc = 0
                   /\ msg_dec.value = msg_in.value
                   /\ Len(msg_dec.value) = Len(msg_in.value)
          /\ msg_pc = "classed"
                => /\ ~ msg_class.asserted
                   /\ msg_class.class = msg_in.type

(***************************************************************************)
(* The lifecycle, resource by resource: one caller config reused for       *)
(* every create/open, two caller pointers, heaps with fresh handles.       *)
(***************************************************************************)
MaxHeaps == 3

\* How many Store objects the calls allocate at most.
MaxStores == 2

\* The state a create/open call leaves the Store object it allocated in:
\* Mounted when it published it, Freed when it failed, Uninitialized when
\* the process stopped in between.
StoreStateAfter(out) ==
    IF ~ out.returned THEN "Uninitialized"
    ELSE IF out.published THEN "Mounted" ELSE "Freed"

\* A data_config with the given key_size, min_key and max_key.
DataConfig(key_size, min_key, max_key) ==
    [key_size       |-> key_size,
     min_key        |-> min_key,
     min_key_length |-> Len(min_key),
     max_key        |-> max_key,
     max_key_length |-> Len(max_key)]

\* The data configs create/open is called with: the default one (whose
\* min_key is empty), one with a one-byte min_key, and one breaking each
\* rule in turn: key_size zero, key_size too large, min_key longer than
\* key_size, max_key longer than key_size, max_key empty, min_key not
\* below max_key.
DataConfigs ==
    {app_data_cfg,
     DataConfig(KeySize, <<0>>, app_data_cfg.max_key),
     DataConfig(0, <<>>, <<>>),
     DataConfig(SPLINTERDB_MAX_KEY_SIZE + 1, <<0>>, <<UINT8_MAX>>),
     DataConfig(KeySize, [i \in 1..(KeySize + 1) |-> 0], app_data_cfg.max_key),
     DataConfig(KeySize, <<0>>, [i \in 1..(KeySize + 1) |-> UINT8_MAX]),
     DataConfig(KeySize, <<0>>, <<>>),
     DataConfig(KeySize, <<UINT8_MAX>>, <<UINT8_MAX>>)}

\* filename == NULL, cache_size == 0, disk_size == 0, or none of them.
RequiredFields == {"none", "filename", "cache_size", "disk_size"}

\* No call has ended the process (a failed platform_assert, a SIGSEGV).
Alive == call.out.returned

LifeCall(op, api, p, data_cfg, required, fail, out) ==
    [op |-> op, api |-> api, p |-> p, before |-> kvs_cfg,
     data_cfg |-> data_cfg, required |-> required, fail |-> fail,
     out |-> out]

\* splinterdb_create(&kvs_cfg, &p) / splinterdb_open(&kvs_cfg, &p)
LifeCreateOrOpen(p, data_cfg, required, open_existing, fail, null_deref) ==
    /\ Alive
    /\ stores[p].ptr = "NULL"
    /\ next_heap <= MaxHeaps
    /\ Len(objs) < MaxStores
    /\ LET out == create_or_open_resources(kvs_cfg, data_cfg, required,
                      open_existing, fail, next_heap, null_deref)
       IN  /\ kvs_cfg' = out.cfg
           /\ stores' = IF out.published
                        THEN [stores EXCEPT
                                ![p] = [ptr |-> "kvs", api |-> "splinterdb",
                                        heap_handle |-> out.kvs.heap_handle,
                                        heap_id |-> out.kvs.heap_id,
                                        id |-> Len(objs) + 1]]
                        ELSE stores
           /\ objs' = IF out.allocated
                      THEN Append(objs, StoreStateAfter(out))
                      ELSE objs
           /\ live_heaps' = IF out.created_heap # NULL_HANDLE
                            THEN live_heaps \cup {out.created_heap}
                            ELSE live_heaps
           /\ next_heap' = IF out.created_heap # NULL_HANDLE
                           THEN next_heap + 1 ELSE next_heap
           /\ call' = LifeCall(IF open_existing THEN "open" ELSE "create",
                               "splinterdb", p, data_cfg, required, fail,
                               out)
    /\ UNCHANGED <<storeVars, resultVars, last, iterVars, harnessVars>>

\* kvstore_create / kvstore_open, with the same caller config.
LegacyCreateOrOpen(p, data_valid, required, open_existing, fail, assert_active) ==
    /\ Alive
    /\ stores[p].ptr = "NULL"
    /\ Len(objs) < MaxStores
    /\ LET out == kvstore_create_or_open(kvs_cfg, data_valid, required,
                      open_existing, fail, assert_active)
       IN  /\ stores' = IF out.published
                        THEN [stores EXCEPT
                                ![p] = [ptr |-> "kvs", api |-> "kvstore",
                                        heap_handle |-> NULL_HANDLE,
                                        heap_id |-> NULL_HANDLE,
                                        id |-> Len(objs) + 1]]
                        ELSE stores
           /\ objs' = IF out.allocated
                      THEN Append(objs, StoreStateAfter(out))
                      ELSE objs
           /\ call' = LifeCall(IF open_existing THEN "open" ELSE "create",
                               "kvstore", p,
                               IF data_valid THEN app_data_cfg
                               ELSE DataConfig(0, <<>>, <<>>),
                               required, fail, out)
    /\ UNCHANGED <<kvs_cfg, live_heaps, next_heap>>
    /\ UNCHANGED <<storeVars, resultVars, last, iterVars, harnessVars>>

\* splinterdb_close(&p); platform_heap_destroy destroys the Store's heap.
LifeClose(p, failing) ==
    /\ Alive
    /\ stores[p].ptr = "kvs"
    /\ stores[p].api = "splinterdb"
    /\ LET steps == splinterdb_close(failing)
           has(x) == \E i \in 1..Len(steps) : steps[i] = x
       IN  /\ stores' = IF has("*kvs_in")
                        THEN [stores EXCEPT
                                ![p] = [NoStore EXCEPT !.id = stores[p].id]]
                        ELSE stores
           /\ objs' = IF has("trunk")
                      THEN [objs EXCEPT ![stores[p].id] = "Closed"]
                      ELSE objs
           /\ live_heaps' = IF has("heap")
                            THEN live_heaps \ {stores[p].heap_handle}
                            ELSE live_heaps
           /\ call' = LifeCall("close", "splinterdb", p, app_data_cfg,
                               "none", failing,
                               [NoCall.out EXCEPT
                                  !.cfg = kvs_cfg,
                                  !.kvs = [heap_handle |->
                                              stores[p].heap_handle,
                                           heap_id |-> stores[p].heap_id],
                                  !.released = steps])
    /\ UNCHANGED <<kvs_cfg, next_heap>>
    /\ UNCHANGED <<storeVars, resultVars, last, iterVars, harnessVars>>

\* The application creates a heap of its own and puts its handles in the
\* config.
SupplyHeap ==
    /\ Alive
    /\ kvs_cfg.heap_handle = NULL_HANDLE
    /\ next_heap <= MaxHeaps
    /\ kvs_cfg' = [kvs_cfg EXCEPT !.heap_handle = next_heap,
                                  !.heap_id = next_heap]
    /\ live_heaps' = live_heaps \cup {next_heap}
    /\ next_heap' = next_heap + 1
    /\ UNCHANGED <<stores, objs, call>>
    /\ UNCHANGED <<storeVars, resultVars, last, iterVars, harnessVars>>

LifeInit ==
    /\ StoreClosed
    /\ ResultIdle
    /\ last = Call("none", NULL_SLICE, 0)
    /\ IterIdle
    /\ HarnessIdle
    /\ kvs_cfg \in [use_shmem : BOOLEAN, heap_handle : {NULL_HANDLE},
                    heap_id : {NULL_HANDLE}]
    /\ stores = [p \in StorePtrs |-> NoStore]
    /\ live_heaps = {}
    /\ next_heap = 1
    /\ objs = <<>>
    /\ call = NoCall

\* The arguments of a create/open call: at most one thing is wrong with
\* a call, a rule of the data config, a required field, or a step that
\* fails.
CreateInputs ==
    {[data_cfg |-> d, required |-> "none", fail |-> "none"] :
        d \in DataConfigs}
    \cup {[data_cfg |-> app_data_cfg, required |-> r, fail |-> "none"] :
            r \in RequiredFields}
    \cup {[data_cfg |-> app_data_cfg, required |-> "none", fail |-> f] :
            f \in StepFailures}

\* The same for kvstore_create / kvstore_open, which have no shared heap
\* and no io-config validation of their own.
LegacyInputs ==
    {i \in CreateInputs :
        /\ i.data_cfg \in {app_data_cfg, DataConfig(0, <<>>, <<>>)}
        /\ i.fail \notin {"platform_heap_create", "laio_config_valid"}}

LifeNext ==
    \/ \E p \in StorePtrs, i \in CreateInputs, o \in BOOLEAN :
          \E n \in IF i.fail = "platform_heap_create"
                   THEN NullDerefOutcomes ELSE {"SIGSEGV"} :
             LifeCreateOrOpen(p, i.data_cfg, i.required, o, i.fail, n)
    \/ \E p \in StorePtrs, i \in LegacyInputs, o \in BOOLEAN :
          \E a \in IF i.fail = "trunk" THEN BOOLEAN ELSE {TRUE} :
             LegacyCreateOrOpen(p, i.data_cfg = app_data_cfg, i.required,
                                o, i.fail, a)
    \/ \E p \in StorePtrs, f \in {"none"} \cup
             {CloseOrder[i] : i \in 1..(Len(CloseOrder) - 2)} :
          LifeClose(p, f)
    \/ SupplyHeap

SpecLife == LifeInit /\ [][LifeNext]_vars

(***************************************************************************)
(* Properties of the lifecycle's resources (under SpecLife).               *)
(***************************************************************************)
Reverse(seq) == [i \in 1..Len(seq) |-> seq[Len(seq) + 1 - i]]

Contains(seq, x) == \E i \in 1..Len(seq) : seq[i] = x

CreateCall == call.op \in {"create", "open"}

\* A create/open that came back without a store.
FailureExit == CreateCall /\ call.out.returned /\ ~ call.out.published

HandlesOf(c) == [heap_handle |-> c.heap_handle, heap_id |-> c.heap_id]

\* C13: on every failure exit of create/open the subsystems initialised
\* before the failure are released, each once, in the reverse of the order
\* of initialisation, and then the Store object is freed; nothing that was
\* not initialised is released.
TeardownReversesInit ==
    FailureExit
       => call.out.released
             = Reverse(call.out.inited)
                 \o (IF call.out.allocated THEN <<"kvs">> ELSE <<>>)

TeardownWitness ==
    /\ FailureExit
    /\ call.api = "splinterdb"
    /\ call.fail = "clockcache_init"
    /\ call.out.inited = <<"io_handle", "task_system", "allocator">>
    /\ call.out.released = <<"allocator", "task_system", "io_handle", "kvs">>

\* C14: when create/open returns non-zero, everything the call acquired
\* has been released or can still be reached through the caller's config:
\* the Store object, each subsystem it initialised, and the shared heap it
\* created itself.
NoLeakOnFailure ==
    (CreateCall /\ call.api = "splinterdb" /\ call.out.returned
        /\ call.out.rc # 0)
       => /\ call.out.allocated => Contains(call.out.released, "kvs")
          /\ \A i \in 1..Len(call.out.inited) :
                Contains(call.out.released, call.out.inited[i])
          /\ call.out.created_heap # NULL_HANDLE
                => \/ call.out.created_heap \notin live_heaps
                   \/ call.out.cfg.heap_handle = call.out.created_heap

\* C15: when use_shmem is set, no heap handle is supplied and the creation
\* of the shared heap fails, create/open returns a non-zero code, publishes
\* nothing and does not read or free the Store object, which was never
\* allocated.
ShmemFailureIsReported ==
    (CreateCall /\ call.api = "splinterdb"
        /\ call.before.use_shmem
        /\ call.before.heap_handle = NULL_HANDLE
        /\ call.fail = "platform_heap_create")
       => /\ call.out.returned
          /\ call.out.rc # 0
          /\ ~ call.out.published
          /\ ~ call.out.null_deref
          /\ call.out.released = <<>>

\* The rules of the data model an AppDataConfig can break.
DataConfigViolates(cfg) ==
    \/ cfg.key_size = 0
    \/ cfg.key_size > SPLINTERDB_MAX_KEY_SIZE
    \/ cfg.min_key_length = 0
    \/ cfg.min_key_length > cfg.key_size
    \/ cfg.max_key_length > cfg.key_size
    \/ cfg.max_key_length = 0
    \/ key_compare(cfg.min_key, cfg.max_key) >= 0

\* C16: create/open with an AppDataConfig that breaks a rule of the data
\* model returns BadParam (22), publishes no store and initialises no
\* subsystem.
BadDataConfigIsBadParam ==
    (CreateCall /\ call.api = "splinterdb"
        /\ call.required = "none" /\ call.fail = "none"
        /\ DataConfigViolates(call.data_cfg))
       => /\ call.out.returned
          /\ call.out.rc = STATUS_BAD_PARAM
          /\ ~ call.out.published
          /\ stores[call.p].ptr = "NULL"
          /\ call.out.inited = <<>>

\* C17: create/open with filename null, cache_size 0 or disk_size 0
\* returns BadParam (22), does not write the caller's store pointer,
\* initialises no subsystem, frees the Store object, and leaves the heap
\* handles of the caller's config as they were before the call.
RequiredFieldsBadParam ==
    (CreateCall /\ call.required # "none")
       => /\ call.out.returned
          /\ call.out.rc = STATUS_BAD_PARAM
          /\ ~ call.out.published
          /\ stores[call.p].ptr = "NULL"
          /\ call.out.inited = <<>>
          /\ call.out.released = <<"kvs">>
          /\ HandlesOf(call.out.cfg) = HandlesOf(call.before)

\* The config create/open validates: the caller's, with the shared heap
\* the call created in it.
ValidatedHandles ==
    IF call.out.created_heap # NULL_HANDLE
    THEN [heap_handle |-> call.out.created_heap,
          heap_id     |-> call.out.created_heap]
    ELSE HandlesOf(call.before)

\* The call got past splinterdb_init_config's two validations.
PassedValidation ==
    /\ CreateCall
    /\ call.api = "splinterdb"
    /\ call.out.returned
    /\ call.out.allocated
    /\ call.required = "none"
    /\ call.data_cfg.key_size <= SPLINTERDB_MAX_KEY_SIZE

\* C18: once create/open has passed configuration validation the Store
\* holds the heap handles that were in the caller's config and the
\* config's are null; so no two live Stores, and no live Store and the
\* config, ever hold the same non-null heap handle.
HeapHandleMove ==
    /\ PassedValidation
          => /\ call.out.kvs = ValidatedHandles
             /\ HandlesOf(call.out.cfg) = NoHandles
    /\ \A p \in StorePtrs :
          (stores[p].ptr = "kvs" /\ stores[p].heap_handle # NULL_HANDLE)
             => /\ kvs_cfg.heap_handle # stores[p].heap_handle
                /\ \A q \in StorePtrs \ {p} :
                      stores[q].ptr = "kvs"
                         => stores[q].heap_handle # stores[p].heap_handle

\* Two Stores opened one after the other from the same config, each
\* holding a heap of its own.
HeapHandleMoveWitness ==
    /\ PassedValidation
    /\ call.out.published
    /\ \A p \in StorePtrs :
          stores[p].ptr = "kvs" /\ stores[p].heap_handle # NULL_HANDLE
    /\ kvs_cfg.heap_handle = NULL_HANDLE

\* C19: when trunk create or mount returns null, create/open returns
\* InvalidState, a non-zero code, does not publish the store pointer and
\* runs the full teardown: cache, allocator, task system, io handle, then
\* the Store object.
TrunkNullIsInvalidState ==
    (CreateCall /\ call.fail = "trunk")
       => /\ call.out.returned
          /\ call.out.rc = STATUS_INVALID_STATE
          /\ call.out.rc # 0
          /\ ~ call.out.published
          /\ stores[call.p].ptr = "NULL"
          /\ call.out.released
                = <<"cache", "allocator", "task_system", "io_handle", "kvs">>

\* C20: close unmounts the trunk, deinits the cache, unmounts the
\* allocator, deinits the io handle, destroys the task system, destroys
\* the heap and nulls the caller's pointer, in this order and each once,
\* whatever goes wrong in a step, and reports no error.
CloseRunsEveryStep ==
    call.op = "close"
       => /\ call.out.returned
          /\ call.out.rc = 0
          /\ call.out.released
                = <<"trunk", "cache", "allocator", "io_handle",
                    "task_system", "heap", "*kvs_in">>
          /\ stores[call.p].ptr = "NULL"
          /\ call.out.kvs.heap_handle \notin live_heaps

\* A close whose cache teardown went wrong, of a Store with a heap.
CloseWitness ==
    /\ call.op = "close"
    /\ call.fail = "cache"
    /\ call.out.kvs.heap_handle # NULL_HANDLE
    /\ Len(call.out.released) = 7
    /\ stores[call.p].ptr = "NULL"

(***************************************************************************)
(* The Store objects and the caller's pointers: create/open, close and     *)
(* the calls that take a Store, made through either pointer whatever it    *)
(* holds.                                                                  *)
(***************************************************************************)
\* op(p, ...) for a call of StoreOps.  Through a NULL pointer the call
\* ends as store_op_on_null says; otherwise it runs on the Store p points
\* to.
LifeOp(p, op, null_deref) ==
    /\ Alive
    /\ stores[p].api # "kvstore"
    /\ LET on_null == store_op_on_null(op)
           out == IF stores[p].ptr # "NULL"
                  THEN [NoCall.out EXCEPT !.cfg = kvs_cfg]
                  ELSE IF on_null = "platform_assert"
                  THEN [NoCall.out EXCEPT !.cfg = kvs_cfg,
                                          !.returned = FALSE]
                  ELSE [NoCall.out EXCEPT
                          !.cfg = kvs_cfg,
                          !.returned = (null_deref # "SIGSEGV"),
                          !.null_deref = TRUE]
       IN  call' = LifeCall(op, "splinterdb", p, app_data_cfg, "none",
                            "none", out)
    /\ UNCHANGED <<kvs_cfg, stores, live_heaps, next_heap, objs>>
    /\ UNCHANGED <<storeVars, resultVars, last, iterVars, harnessVars>>

\* splinterdb_close(&p) when p is NULL.
LifeCloseNull(p) ==
    /\ Alive
    /\ stores[p].ptr = "NULL"
    /\ LET r == splinterdb_close_on_null
       IN  call' = LifeCall("close_null", "splinterdb", p, app_data_cfg,
                            "none", "none",
                            [NoCall.out EXCEPT !.cfg = kvs_cfg,
                                               !.returned = r.returned,
                                               !.released = r.steps])
    /\ UNCHANGED <<kvs_cfg, stores, live_heaps, next_heap, objs>>
    /\ UNCHANGED <<storeVars, resultVars, last, iterVars, harnessVars>>

StoreNext ==
    \/ \E p \in StorePtrs, o \in BOOLEAN,
          f \in {"none", "TYPED_ZALLOC", "trunk"} :
          LifeCreateOrOpen(p, app_data_cfg, "none", o, f, "SIGSEGV")
    \/ \E p \in StorePtrs, f \in {"none", "cache"} : LifeClose(p, f)
    \/ \E p \in StorePtrs : LifeCloseNull(p)
    \/ \E p \in StorePtrs, op \in StoreOps, n \in NullDerefOutcomes :
          LifeOp(p, op, n)

SpecStore == LifeInit /\ [][StoreNext]_vars

\* C21: close sets the caller's pointer to null, and a second close on
\* the nulled pointer does nothing: it returns, and releases nothing a
\* second time.
SecondCloseIsNoOp ==
    /\ call.op = "close" => stores[call.p].ptr = "NULL"
    /\ (call.op = "close_null"
          /\ stores[call.p].id # 0
          /\ objs[stores[call.p].id] = "Closed")
         => /\ call.out.returned
            /\ call.out.released = <<>>
            /\ stores[call.p].ptr = "NULL"

\* The Store a pointer holds, 0 when it is NULL.
StoreAt(p) == IF stores[p].ptr = "NULL" THEN 0 ELSE stores[p].id

\* C22: a Store object becomes Mounted only in a create/open that
\* succeeds, becomes Closed only in close, and when Closed stays Closed
\* (a reopen allocates another Store); and a call that takes a Store runs
\* only on a Mounted one.
StoreLifecycle ==
    /\ [][/\ \A i \in 1..Len(objs) :
               /\ i <= Len(objs')
               /\ objs'[i] # objs[i]
                     => /\ objs[i] = "Mounted"
                        /\ objs'[i] = "Closed"
                        /\ call'.op = "close"
                        /\ stores[call'.p].id = i
          /\ \A i \in (Len(objs) + 1)..Len(objs') :
               objs'[i] = "Mounted"
                  => /\ call'.op \in {"create", "open"}
                     /\ call'.out.rc = 0
                     /\ call'.out.published
                     /\ stores'[call'.p].id = i]_vars
    /\ [](\A p \in StorePtrs :
             StoreAt(p) # 0 => objs[StoreAt(p)] = "Mounted")
    /\ []((call.op \in StoreOps /\ StoreAt(call.p) # 0)
             => objs[StoreAt(call.p)] = "Mounted")

\* A pointer whose Store was closed has been handed a new Store by a
\* second create/open, and a call has run on it.
StoreLifecycleWitness ==
    \E p \in StorePtrs :
       /\ call.op \in StoreOps
       /\ call.p = p
       /\ call.out.returned
       /\ StoreAt(p) = 2
       /\ objs = <<"Closed", "Mounted">>

(***************************************************************************)
(* Configuration defaults: the harness hands splinterdb_init_config a      *)
(* config in which any of the tunables is set or left zero.                *)
(***************************************************************************)
\* A value a caller sets a tunable to.
CallerValue(f) ==
    CASE f = "io_flags" -> {"O_RDWR"}
      [] f = "reclaim_threshold" -> <<0, 0, 1, 0>>
      [] OTHER -> 3

CallerConfigs ==
    {[f \in Tunables |-> IF f \in S THEN CallerValue(f) ELSE ZeroOf(f)] :
        S \in SUBSET Tunables}

DefaultsInit ==
    /\ StoreClosed
    /\ ResultIdle
    /\ last = Call("none", NULL_SLICE, 0)
    /\ IterIdle
    /\ CodecIdle
    /\ CompareIdle
    /\ MessageIdle
    /\ \E c \in CallerConfigs :
          dflt = [pc |-> "start", before |-> c, kvs_cfg |-> c,
                  out |-> splinterdb_init_config_tunables(ZeroConfig)]
    /\ RangeIdle
    /\ ThreadIdle
    /\ ShimIdle
    /\ SlotsIdle
    /\ LifeIdle

\* splinterdb_init_config(&kvs_cfg, kvs), as far as the tunables go.
DefaultsApply ==
    /\ dflt.pc = "start"
    /\ LET r == splinterdb_init_config_tunables(dflt.kvs_cfg)
       IN  dflt' = [dflt EXCEPT !.pc = "derived", !.kvs_cfg = r.kvs_cfg,
                                !.out = r]
    /\ UNCHANGED <<storeVars, resultVars, last, iterVars, codecVars, cmpVars,
                   msgVars, rng, thr, shm, tsk,
                   lifeVars>>

DefaultsNext == DefaultsApply

SpecDefaults == DefaultsInit /\ [][DefaultsNext]_vars

\* The default the configuration section documents for each tunable.
DocumentedDefault(f) ==
    CASE f = "page_size" -> 4096
      [] f = "extent_size" -> 128 * 4096
      [] f = "io_flags" -> {"O_RDWR", "O_CREAT"}
      [] f = "io_perms" -> 493
      [] f = "io_async_queue_depth" -> 256
      [] f = "btree_rough_count_height" -> 1
      [] f = "filter_index_size" -> 256
      [] f = "filter_remainder_size" -> 6
      [] f = "memtable_capacity" -> 24 * 1048576
      [] f = "fanout" -> 8
      [] f = "max_branches_per_node" -> 24
      [] f = "reclaim_threshold" -> <<65535, 65535, 65535, 65535>>

\* The value of a tunable that reached its subsystem's config.
Passed(out, f) ==
    CASE f = "page_size" -> out.io_config_init.page_size
      [] f = "extent_size" -> out.io_config_init.extent_size
      [] f = "io_flags" -> out.io_config_init.flags
      [] f = "io_perms" -> out.io_config_init.perms
      [] f = "io_async_queue_depth" -> out.io_config_init.async_queue_size
      [] OTHER -> out.trunk_config_init[f]

\* C23: each tunable reaches its subsystem config with the caller's value
\* when the caller set it and with the documented default when the caller
\* left it zero, and the caller's config keeps the values it had.
DefaultsOnlyForZero ==
    dflt.pc = "derived"
       => \A f \in Tunables :
             /\ Passed(dflt.out, f)
                   = IF dflt.before[f] = ZeroOf(f)
                     THEN DocumentedDefault(f)
                     ELSE dflt.before[f]
             /\ dflt.kvs_cfg[f] = dflt.before[f]

\* A config with fanout set and page_size left zero.
DefaultsWitness ==
    /\ dflt.pc = "derived"
    /\ dflt.before["fanout"] = 3
    /\ dflt.before["page_size"] = 0
    /\ dflt.out.trunk_config_init.fanout = 3
    /\ dflt.out.io_config_init.page_size = 4096
    /\ dflt.kvs_cfg["page_size"] = 0

\* C24: under the default data config the message kinds are Insert and
\* Delete only: encode_message rejects a message of kind Update, whatever
\* the value and the buffer's capacity, returning an error and producing
\* no encoded message.
UpdateRejectedAtEncode ==
    (msg_pc # "start" /\ msg_in.type = MESSAGE_TYPE_UPDATE)
       => /\ msg_enc.rc # 0
          /\ msg_enc.encoded_len = 0

(***************************************************************************)
(* The default data_config's key range: the harness builds the config for  *)
(* a key_size and hands validate_key_in_range a key.                       *)
(***************************************************************************)
RangeBytes == {0, 1, UINT8_MAX}

RangeKeys == UNION {[1..n -> RangeBytes] : n \in 0..SPLINTERDB_MAX_KEY_SIZE}

RangeInit ==
    /\ StoreClosed
    /\ ResultIdle
    /\ last = Call("none", NULL_SLICE, 0)
    /\ IterIdle
    /\ CodecIdle
    /\ CompareIdle
    /\ MessageIdle
    /\ DefaultsIdle
    /\ ShimIdle
    /\ SlotsIdle
    /\ \E n \in 1..SPLINTERDB_MAX_KEY_SIZE, k \in RangeKeys :
          rng = [pc |-> "start", key_size |-> n, key |-> k,
                 cfg |-> app_data_cfg, in_range |-> FALSE]
    /\ ThreadIdle
    /\ LifeIdle

\* default_data_config_init(key_size, ..., &cfg)
RangeConfigInit ==
    /\ rng.pc = "start"
    /\ rng' = [rng EXCEPT !.pc = "configured",
                          !.cfg = default_data_config_init(rng.key_size)]
    /\ UNCHANGED <<storeVars, resultVars, last, iterVars, codecVars, cmpVars,
                   msgVars, dflt, thr, shm, tsk,
                   lifeVars>>

\* validate_key_in_range(kvs, key) on a Store with that config
RangeValidate ==
    /\ rng.pc = "configured"
    /\ rng' = [rng EXCEPT !.pc = "checked",
                          !.in_range =
                              validate_key_in_range_of(rng.cfg, rng.key)]
    /\ UNCHANGED <<storeVars, resultVars, last, iterVars, codecVars, cmpVars,
                   msgVars, dflt, thr, shm, tsk,
                   lifeVars>>

RangeNext == RangeConfigInit \/ RangeValidate

SpecRange == RangeInit /\ [][RangeNext]_vars

\* C25: the default data config for a key_size in 1..MAX_LOGICAL_KEY has
\* an empty min_key, a max_key of key_size bytes 0xFF and the
\* lexicographic comparator, so min_key < max_key and the in-range check
\* accepts every key of at most key_size bytes.
DefaultRangeCoversKeys ==
    /\ rng.pc # "start"
          => /\ rng.cfg.key_size = rng.key_size
             /\ rng.cfg.min_key = <<>>
             /\ rng.cfg.min_key_length = 0
             /\ rng.cfg.max_key = [i \in 1..rng.key_size |-> 255]
             /\ rng.cfg.max_key_length = rng.key_size
             /\ key_compare(rng.cfg.min_key, rng.cfg.max_key) < 0
    /\ (rng.pc = "checked" /\ Len(rng.key) <= rng.key_size)
          => rng.in_range

\* The largest key of a two-byte config is accepted.
DefaultRangeWitness ==
    /\ rng.pc = "checked"
    /\ rng.key_size = 2
    /\ rng.key = <<255, 255>>
    /\ rng.in_range

(***************************************************************************)
(* Threads using a mounted store.                                          *)
(***************************************************************************)
\* splinterdb_register_thread(kvs) on thread tid
ThreadRegister(tid) ==
    /\ thr.alive
    /\ tid # "opener"
    /\ tid \notin thr.task_sys
    /\ thr' = [thr EXCEPT
                 !.task_sys = splinterdb_register_thread(thr.task_sys, tid),
                 !.phase[tid] = "registered",
                 !.last = [tid |-> tid, op |-> "register_thread",
                           asserted |-> FALSE]]
    /\ UNCHANGED <<storeVars, resultVars, last, iterVars, codecVars, cmpVars,
                   msgVars, dflt, rng, shm, tsk,
                   lifeVars>>

\* splinterdb_deregister_thread(kvs) on thread tid
ThreadDeregister(tid) ==
    /\ thr.alive
    /\ tid # "opener"
    /\ thr.phase[tid] = "registered"
    /\ thr' = [thr EXCEPT
                 !.task_sys = splinterdb_deregister_thread(thr.task_sys, tid),
                 !.phase[tid] = "deregistered",
                 !.last = [tid |-> tid, op |-> "deregister_thread",
                           asserted |-> FALSE]]
    /\ UNCHANGED <<storeVars, resultVars, last, iterVars, codecVars, cmpVars,
                   msgVars, dflt, rng, shm, tsk,
                   lifeVars>>

\* A store call on thread tid, in a debug build: a failed assertion
\* stops the process.
ThreadOp(tid, op) ==
    /\ thr.alive
    /\ LET a == engine_call_asserts(thr.task_sys, tid)
       IN  thr' = [thr EXCEPT
                     !.last = [tid |-> tid, op |-> op, asserted |-> a],
                     !.alive = ~ a]
    /\ UNCHANGED <<storeVars, resultVars, last, iterVars, codecVars, cmpVars,
                   msgVars, dflt, rng, shm, tsk,
                   lifeVars>>

ThreadInit ==
    /\ StoreCreated
    /\ ResultIdle
    /\ last = Call("none", NULL_SLICE, 0)
    /\ IterIdle
    /\ HarnessIdle
    /\ LifeIdle

ThreadNext ==
    \/ \E t \in Threads : ThreadRegister(t)
    \/ \E t \in Threads : ThreadDeregister(t)
    \/ \E t \in Threads, op \in ThreadOps : ThreadOp(t, op)

SpecThread == ThreadInit /\ [][ThreadNext]_vars

\* C26: a store call made by a thread other than the opening one takes
\* the assertion path (of a debug build) when the thread has not called
\* register_thread, proceeds once it has, and takes the assertion path
\* again after deregister_thread.
UnregisteredThreadAsserts ==
    (thr.last.op \in ThreadOps /\ thr.last.tid # "opener")
       => (thr.last.asserted <=> thr.phase[thr.last.tid] # "registered")

\* Thread t1 registered, made a call that went through, deregistered while
\* t2 stayed registered, and its next call asserted.
ThreadWitness ==
    /\ thr.last.op \in ThreadOps
    /\ thr.last.tid = "t1"
    /\ thr.phase["t1"] = "deregistered"
    /\ thr.phase["t2"] = "registered"
    /\ thr.last.asserted

\* C27: when iterator_init fails after allocating its wrapper (a start
\* key that cannot be encoded, or trunk_range_iterator_init failing) it
\* frees that wrapper and nothing else, leaves the caller's iterator
\* pointer unread and unwritten and returns a non-zero code; when it
\* succeeds the caller's pointer is the wrapper, with status OK.
IteratorInitCleansUp ==
    last.op = "iterator_init"
       => /\ (last.rc # 0 /\ it_heap.wrapper # "none")
                => /\ it_heap.wrapper = "freed"
                   /\ it_heap.freed = "wrapper"
                   /\ iter = NullIterator
          /\ last.rc = 0
                => /\ iter.live
                   /\ it_heap.wrapper = "owned"
                   /\ it_heap.freed = "nothing"
                   /\ splinterdb_iterator_status(iter) = 0

\* C29: after every successful encode into a buffer of the physical key
\* size, byte 0 holds the logical length, the next length bytes hold the
\* key and every remaining byte is zero whatever the buffer held before;
\* hence the encoding of any key into any buffer is byte-identical to
\* this one exactly when the key is the same.
PhysicalKeyLayout ==
    (ck_pc # "start" /\ ck_rc = 0)
       => /\ Len(ck_buf) = MAX_KEY_SIZE
          /\ ck_buf[1] = Len(ck_key)
          /\ \A i \in 1..Len(ck_key) : ck_buf[i + 1] = ck_key[i]
          /\ \A i \in (Len(ck_key) + 2)..MAX_KEY_SIZE : ck_buf[i] = 0
          /\ \A k \in CodecKeys, b \in CodecBuffers :
                LET r == encode_key(MAX_KEY_SIZE, b, k)
                IN  r.rc = 0 => ((r.buf = ck_buf) <=> (k = ck_key))

PhysicalKeyLayoutWitness ==
    /\ ck_pc = "encoded"
    /\ ck_rc = 0
    /\ Len(ck_key) = 1
    /\ \A i \in 1..MAX_KEY_SIZE : ck_before[i] # 0
    /\ ck_buf[MAX_KEY_SIZE] = 0

(***************************************************************************)
(* The shim data_config on its own: splinterdb_init_config validates the   *)
(* application's data_config and, when it is accepted, builds the shim     *)
(* from it.  The application configs have every key_size from 0 to one     *)
(* more than allowed and every min_key and max_key of up to KeySize + 1    *)
(* bytes.                                                                  *)
(***************************************************************************)
ShimBytes == {0, UINT8_MAX}

ShimKeys == UNION {[1..n -> ShimBytes] : n \in 0..(KeySize + 1)}

ShimCallbacks == {"default", "app"}

ShimConfigs ==
    {AppDataConfig(n, lo, hi, h, m) :
        n \in 0..(SPLINTERDB_MAX_KEY_SIZE + 1), lo \in ShimKeys,
        hi \in ShimKeys, h \in ShimCallbacks, m \in ShimCallbacks}

ShimInit ==
    /\ StoreClosed
    /\ ResultIdle
    /\ last = Call("none", NULL_SLICE, 0)
    /\ IterIdle
    /\ CodecIdle
    /\ CompareIdle
    /\ MessageIdle
    /\ DefaultsIdle
    /\ RangeIdle
    /\ ThreadIdle
    /\ SlotsIdle
    /\ \E a \in ShimConfigs :
          shm = [pc  |-> "start",
                 app |-> a,
                 v   |-> [asserted |-> FALSE, status |-> STATUS_OK],
                 out |-> [rc |-> 0, out_shim |-> ZeroShim]]
    /\ LifeIdle

\* splinterdb_init_config, line 330: the validation of the data_config.
ShimValidate ==
    /\ shm.pc = "start"
    /\ shm' = [shm EXCEPT !.pc = "validated",
                          !.v = splinterdb_validate_app_data_config(shm.app)]
    /\ UNCHANGED <<storeVars, resultVars, last, iterVars, codecVars, cmpVars,
                   msgVars, dflt, rng, thr, tsk,
                   lifeVars>>

\* splinterdb_init_config, lines 350-352: the shim, built once the
\* validation has let the config through.
ShimBuild ==
    /\ shm.pc = "validated"
    /\ ~ shm.v.asserted
    /\ SUCCESS(shm.v.status)
    /\ shm' = [shm EXCEPT !.pc = "built",
                          !.out = splinterdb_shim_data_config(shm.app,
                                                              ZeroShim)]
    /\ UNCHANGED <<storeVars, resultVars, last, iterVars, codecVars, cmpVars,
                   msgVars, dflt, rng, thr, tsk,
                   lifeVars>>

ShimNext == ShimValidate \/ ShimBuild

SpecShim == ShimInit /\ [][ShimNext]_vars

\* C30: for every application data_config the validation accepts, the
\* shim is built, its key_size is the application's plus one and no more
\* than the engine's key slot, its min_key and max_key are the encodings
\* of the application's, both lengths are reported as zero, key_hash and
\* message_to_string are the application's, and the shim comparator puts
\* its min_key strictly below its max_key.
ShimMatchesApp ==
    shm.pc = "built"
        => LET shim == shm.out.out_shim.super
               app  == shm.app
           IN  /\ shm.out.rc = 0
               /\ shim.key_size = app.key_size + 1
               /\ shim.key_size <= MAX_KEY_SIZE
               /\ shim.min_key
                     = encode_key(MAX_KEY_SIZE, ZeroKeyBuffer, app.min_key).buf
               /\ shim.max_key
                     = encode_key(MAX_KEY_SIZE, ZeroKeyBuffer, app.max_key).buf
               /\ decode_key(shim.min_key) = app.min_key
               /\ decode_key(shim.max_key) = app.max_key
               /\ shim.min_key_length = 0
               /\ shim.max_key_length = 0
               /\ shim.key_hash = app.key_hash
               /\ shim.message_to_string = app.message_to_string
               /\ splinterdb_shim_key_compare(shim.min_key, shim.max_key) < 0

ShimMatchesAppWitness ==
    /\ shm.pc = "built"
    /\ shm.app.key_size = SPLINTERDB_MAX_KEY_SIZE
    /\ shm.app.min_key = <<0>>
    /\ shm.app.max_key_length = KeySize + 1
    /\ shm.app.key_hash = "app"
    /\ shm.out.out_shim.super.key_size = MAX_KEY_SIZE
    /\ shm.out.out_shim.super.min_key[1] = 1

(***************************************************************************)
(* The message codec with decode_message also handed the destination       *)
(* buffer as the caller allocated it, a zero-length one included.          *)
(***************************************************************************)
\* decode_message on the whole destination buffer, before any encode.
MessageDecodeBuffer ==
    /\ msg_pc = "start"
    /\ msg_dec' = decode_message(msg_in.cap, msg_buf)
    /\ msg_pc' = "raw"
    /\ UNCHANGED <<msg_in, msg_buf, msg_enc, msg_class>>
    /\ UNCHANGED <<storeVars, resultVars, last, iterVars, codecVars, cmpVars,
                   auxVars, lifeVars>>

MessageCodecNext == MessageEncode \/ MessageDecode \/ MessageDecodeBuffer

SpecMessageCodec == MessageInit /\ [][MessageCodecNext]_vars

\* C31: encode_message returns EINVAL exactly when 1 + value_len exceeds
\* the destination capacity; otherwise it returns 0, the destination
\* holds the type byte followed by the value bytes and the reported
\* length is 1 + value_len.  decode_message returns EINVAL exactly when
\* the buffer is shorter than the one-byte header, and otherwise reports
\* buffer_length - 1 value bytes, starting at byte 1.
MessageEncodeResult ==
    /\ msg_pc \in {"encoded", "decoded"}
          => /\ msg_enc.rc \in {0, EINVAL}
             /\ (msg_enc.rc = EINVAL) <=> (1 + Len(msg_in.value) > msg_in.cap)
             /\ msg_enc.rc = 0
                   => /\ msg_buf[1] = message_type_code(msg_in.type)
                      /\ \A i \in 1..Len(msg_in.value) :
                            msg_buf[i + 1] = msg_in.value[i]
                      /\ msg_enc.encoded_len = 1 + Len(msg_in.value)
    /\ msg_pc = "decoded"
          => /\ msg_dec.rc = 0
             /\ Len(msg_dec.value) = msg_enc.encoded_len - 1
             /\ \A i \in 1..Len(msg_dec.value) :
                   msg_dec.value[i] = msg_buf[i + 1]
    /\ msg_pc = "raw"
          => /\ msg_dec.rc \in {0, EINVAL}
             /\ (msg_dec.rc = EINVAL) <=> (msg_in.cap < 1)
             /\ msg_dec.rc = 0
                   => /\ Len(msg_dec.value) = msg_in.cap - 1
                      /\ \A i \in 1..Len(msg_dec.value) :
                            msg_dec.value[i] = msg_buf[i + 1]

\* A buffer too short to decode, and one encode_message fills to the brim.
MessageEncodeResultWitness ==
    \/ /\ msg_pc = "raw"
       /\ msg_in.cap = 0
       /\ msg_dec.rc = EINVAL
       /\ msg_in.type = MESSAGE_TYPE_DELETE
    \/ /\ msg_pc = "decoded"
       /\ msg_in.cap = MsgCapacity
       /\ msg_enc.encoded_len = MsgCapacity
       /\ msg_in.type = MESSAGE_TYPE_DELETE

\* C38: when encode_message fails with EINVAL it has written nothing:
\* every byte of the destination buffer and *out_encoded_len are as they
\* were, and no byte outside the buffer is written, a zero-capacity
\* buffer included.
FailedEncodeWritesNothing ==
    (msg_pc = "encoded" /\ msg_enc.rc = EINVAL)
       => /\ msg_buf = [i \in 1..msg_in.cap |-> msg_in.fill]
          /\ msg_enc.encoded_len = 0
          /\ ~ msg_enc.overflow

(***************************************************************************)
(* The range iterator called in any order: valid, next and get_current on  *)
(* a live iterator whatever the previous call answered.  last.rc of an     *)
(* iterator_valid or iterator_next step is the status the engine has for   *)
(* that call (iterator_at_end, iterator_advance), whether or not the call  *)
(* asks for it; it_state is the answer of the last valid.  The engine      *)
(* cannot advance or read past the end of the range.                       *)
(***************************************************************************)
AnyValid(status) ==
    /\ iter.live
    /\ LET r == splinterdb_iterator_valid(iter, status)
       IN  /\ iter' = r.kvi
           /\ it_state' = IF r.valid THEN "valid" ELSE "end"
    /\ last' = Call("iterator_valid", NULL_SLICE,
                    platform_status_to_int(status))
    /\ UNCHANGED <<storeVars, resultVars, seen, it_heap, harnessVars, lifeVars>>

AnyNext(status) ==
    /\ iter.live
    /\ SUCCESS(status) => ~ iterator_at_end(iter.sri)
    /\ iter' = splinterdb_iterator_next(iter, status)
    /\ it_state' = "fresh"
    /\ last' = Call("iterator_next", NULL_SLICE,
                    platform_status_to_int(status))
    /\ UNCHANGED <<storeVars, resultVars, seen, it_heap, harnessVars, lifeVars>>

AnyGetCurrent ==
    /\ iter.live
    /\ ~ iterator_at_end(iter.sri)
    /\ last' = Call("iterator_get_current",
                    splinterdb_iterator_get_current(iter)[1], 0)
    /\ UNCHANGED <<storeVars, resultVars, iterVars, harnessVars, lifeVars>>

IterAnyNext ==
    \/ \E k \in IterKeys, v \in Values : Insert(k, v)
    \/ \E s \in IterStartKeys, m \in BOOLEAN, st \in EngineStatuses :
          IterInit(s, m, st)
    \/ \E st \in EngineStatuses : AnyValid(st)
    \/ \E st \in EngineStatuses : AnyNext(st)
    \/ AnyGetCurrent
    \/ IterDeinit

SpecIterAny == IterSpecInit /\ [][IterAnyNext]_vars

\* C32: iterator valid returns true exactly when the cached status is ok,
\* the end-of-range query succeeds and reports not-at-end; with a cached
\* status that is not ok it returns false, whatever the query would have
\* answered, and leaves the cached status alone; when the query fails it
\* returns false and status() afterwards returns the query's code.
IteratorValidLaw ==
    [][last'.op = "iterator_valid"
         => /\ it_state' = "valid"
                  <=> /\ SUCCESS(iter.last_rc)
                      /\ last'.rc = 0
                      /\ ~ iterator_at_end(iter.sri)
            /\ it_state' # "valid" => it_state' = "end"
            /\ ~ SUCCESS(iter.last_rc) => iter' = iter
            /\ (SUCCESS(iter.last_rc) /\ last'.rc # 0)
                  => /\ it_state' = "end"
                     /\ splinterdb_iterator_status(iter') = last'.rc]_vars

\* valid has answered false on a cached failure although the range has
\* entries left and the engine's query would have succeeded.
IteratorValidWitness ==
    /\ last.op = "iterator_valid"
    /\ last.rc = 0
    /\ it_state = "end"
    /\ iter.live
    /\ ~ SUCCESS(iter.last_rc)
    /\ ~ iterator_at_end(iter.sri)

\* C37 as stated: once the cached status is not ok, every later status()
\* is not ok and every later valid() is false, whatever valid, next and
\* get_current calls follow, until deinit.
IteratorErrorSticky ==
    [][(iter.live /\ ~ SUCCESS(iter.last_rc) /\ iter'.live)
         => /\ splinterdb_iterator_status(iter') # 0
            /\ last'.op = "iterator_valid" => it_state' = "end"]_vars

\* C37: once the cached status is not ok, status() returns that same
\* code and valid() returns false after every following valid and
\* get_current call; a next replaces the cached status by the status of
\* its advance, a successful one included.
IteratorErrorStickyUntilNext ==
    [][(iter.live /\ ~ SUCCESS(iter.last_rc) /\ iter'.live)
         => IF last'.op = "iterator_next"
            THEN iter'.last_rc = last'.rc
            ELSE /\ splinterdb_iterator_status(iter')
                       = splinterdb_iterator_status(iter)
                 /\ last'.op = "iterator_valid" => it_state' = "end"]_vars

\* get_current called after valid has answered false on a failure: the
\* failure is still cached.
IteratorErrorStickyWitness ==
    /\ iter.live
    /\ last.op = "iterator_get_current"
    /\ last.key = <<0, 0>>
    /\ it_state = "end"
    /\ splinterdb_iterator_status(iter) = STATUS_IO_ERROR

\* The subsystem a call of create/open sets up.
SubsystemOf(c) ==
    CASE c = "io_handle_init" -> "io_handle"
      [] c = "task_system_create" -> "task_system"
      [] c \in {"rc_allocator_init", "rc_allocator_mount"} -> "allocator"
      [] c = "clockcache_init" -> "cache"
      [] OTHER -> "trunk"

\* C33: create/open acquires the subsystems in the order io handle, task
\* system, allocator (init for create, mount for open), cache, trunk
\* (create for create, mount for open); each is attempted only after all
\* earlier ones succeeded, none before the configuration has been
\* validated, and allocator and trunk use the same mode within one call.
AcquisitionOrder ==
    (call.op \in {"create", "open"} /\ call.api = "splinterdb")
       => LET a == call.out.attempts
              order == <<"io_handle", "task_system", "allocator", "cache",
                         "trunk">>
          IN  /\ Len(a) <= Len(order)
              /\ \A i \in 1..Len(a) : SubsystemOf(a[i]) = order[i]
              /\ \A i \in 1..(Len(a) - 1) :
                    /\ i <= Len(call.out.inited)
                    /\ call.out.inited[i] = order[i]
              /\ a # <<>>
                    => LET v == splinterdb_validate_app_data_config(
                                   call.data_cfg)
                       IN  /\ ~ v.asserted
                           /\ SUCCESS(v.status)
                           /\ call.required = "none"
                           /\ call.fail # "laio_config_valid"
              /\ \A i \in 1..Len(a) :
                    /\ a[i] \in {"rc_allocator_init", "trunk_create"}
                          => call.op = "create"
                    /\ a[i] \in {"rc_allocator_mount", "trunk_mount"}
                          => call.op = "open"
              /\ call.out.published => Len(a) = Len(order)

\* An open that got as far as mounting the trunk and failed there.
AcquisitionOrderWitness ==
    /\ call.op = "open"
    /\ call.api = "splinterdb"
    /\ call.fail = "trunk"
    /\ call.out.attempts[3] = "rc_allocator_mount"
    /\ call.out.attempts[5] = "trunk_mount"
    /\ ~ call.out.published

\* C36: create/open returns 0 if and only if it has written the caller's
\* store pointer, and then with a Mounted Store whose five subsystems
\* have all been set up; on every non-zero return the caller's pointer
\* keeps the value it had before the call.
ZeroIffPublished ==
    [][(call'.op \in {"create", "open"} /\ call'.api = "splinterdb"
           /\ call'.out.returned)
         => LET p == call'.p
            IN  /\ (call'.out.rc = 0) <=> (stores'[p].ptr # "NULL")
                /\ call'.out.rc = 0
                      => /\ stores'[p].api = "splinterdb"
                         /\ objs'[stores'[p].id] = "Mounted"
                         /\ call'.out.inited = InitOrder
                         /\ Len(call'.out.attempts) = Len(InitOrder) + 1
                         /\ call'.out.released = <<>>
                /\ call'.out.rc # 0 => stores'[p] = stores[p]]_vars

\* A failed open on a pointer an earlier close had nulled.
ZeroIffPublishedWitness ==
    /\ call.op = "open"
    /\ call.api = "splinterdb"
    /\ call.out.returned
    /\ call.out.rc = STATUS_INVALID_STATE
    /\ stores[call.p].ptr = "NULL"
    /\ stores[call.p].id # 0

(***************************************************************************)
(* Thread slots: threads register and deregister in any interleaving,      *)
(* each registering while it is not registered and deregistering while it  *)
(* is.  There is one thread more than the task system has slots.           *)
(***************************************************************************)
SlotThreads == {"opener", "t1", "t2", "t3"}

SlotRegister(tid) ==
    /\ tsk.alive
    /\ tid \notin tsk.registered
    /\ LET r == register_thread(tsk.slots, tid)
       IN  tsk' = [slots      |-> r.slots,
                   registered |-> IF r.asserted THEN tsk.registered
                                  ELSE tsk.registered \cup {tid},
                   last       |-> [tid |-> tid, op |-> "register",
                                   asserted |-> r.asserted],
                   alive      |-> ~ r.asserted]
    /\ UNCHANGED <<storeVars, resultVars, last, iterVars, codecVars, cmpVars,
                   msgVars, dflt, rng, thr, shm, lifeVars>>

SlotDeregister(tid) ==
    /\ tsk.alive
    /\ tid \in tsk.registered
    /\ tsk' = [slots      |-> deregister_thread(tsk.slots, tid),
               registered |-> tsk.registered \ {tid},
               last       |-> [tid |-> tid, op |-> "deregister",
                               asserted |-> FALSE],
               alive      |-> TRUE]
    /\ UNCHANGED <<storeVars, resultVars, last, iterVars, codecVars, cmpVars,
                   msgVars, dflt, rng, thr, shm, lifeVars>>

SlotsNext ==
    \/ \E t \in SlotThreads : SlotRegister(t)
    \/ \E t \in SlotThreads : SlotDeregister(t)

SpecSlots == ThreadInit /\ [][SlotsNext]_vars

\* C34: after any interleaving of register and deregister calls the
\* occupied slots are those of the threads registered and not yet
\* deregistered, one each with a scratch buffer of trunk_get_scratch_size
\* bytes, and never more than MAX_THREADS; a register beyond the ceiling
\* fails its assert instead of succeeding.
SlotAccounting ==
    /\ Cardinality(OccupiedSlots(tsk.slots)) = Cardinality(tsk.registered)
    /\ Cardinality(OccupiedSlots(tsk.slots)) <= MAX_THREADS
    /\ \A t \in tsk.registered :
          \E i \in DOMAIN tsk.slots :
             /\ tsk.slots[i] = [tid |-> t,
                                scratch |-> trunk_get_scratch_size]
             /\ \A j \in DOMAIN tsk.slots : tsk.slots[j].tid = t => j = i
    /\ tsk.last.op = "register"
          => (tsk.last.asserted <=> tsk.last.tid \notin tsk.registered)
    /\ tsk.last.asserted
          => Cardinality(tsk.registered) = MAX_THREADS

\* A register with every slot taken, one of them by a thread that
\* registered after another had deregistered.
SlotAccountingWitness ==
    /\ tsk.last = [tid |-> "opener", op |-> "register", asserted |-> TRUE]
    /\ tsk.registered = {"t1", "t2", "t3"}
    /\ tsk.slots[1].tid = "t3"

(***************************************************************************)
(* The older API from create to close.  kvstore_close takes the Store      *)
(* pointer by value: the caller's pointer keeps its value, and the caller  *)
(* does not use it again once the Store has been freed.                    *)
(***************************************************************************)
LegacyClose(p, dismount_status) ==
    /\ Alive
    /\ stores[p].ptr = "kvs"
    /\ stores[p].api = "kvstore"
    /\ objs[stores[p].id] = "Mounted"
    /\ LET r == kvstore_close(dismount_status)
       IN  /\ objs' = IF Contains(r.steps, "kvs")
                      THEN [objs EXCEPT ![stores[p].id] = "Closed"]
                      ELSE objs
           /\ call' = LifeCall("kvstore_close", "kvstore", p, app_data_cfg,
                               "none",
                               IF SUCCESS(dismount_status) THEN "none"
                               ELSE "trunk",
                               [NoCall.out EXCEPT
                                  !.cfg = kvs_cfg,
                                  !.rc = platform_status_to_int(r.rc),
                                  !.released = r.steps])
    /\ UNCHANGED <<kvs_cfg, stores, live_heaps, next_heap>>
    /\ UNCHANGED <<storeVars, resultVars, last, iterVars, harnessVars>>

LegacyNext ==
    \/ \E p \in StorePtrs, i \in LegacyInputs, o \in BOOLEAN :
          \E a \in BOOLEAN :
             LegacyCreateOrOpen(p, i.data_cfg = app_data_cfg, i.required,
                                o, i.fail, a)
    \/ \E p \in StorePtrs, st \in EngineStatuses : LegacyClose(p, st)
    \/ SupplyHeap

SpecLegacy == LifeInit /\ [][LegacyNext]_vars

\* C35: kvstore_close releases all resources of the store: on return the
\* trunk has been dismounted and the cache, the allocator, the io handle,
\* the task system and the kvstore object have been released, in that
\* order, also when the dismount reports a failure.
LegacyCloseReleasesAll ==
    (call.op = "kvstore_close" /\ call.out.returned)
       => /\ call.out.released
                = <<"trunk", "cache", "allocator", "io_handle",
                    "task_system", "kvs">>
          /\ objs[stores[call.p].id] = "Closed"

Count(seq, x) == Cardinality({i \in 1..Len(seq) : seq[i] = x})

\* C39: after close returns, every resource the create/open acquired has
\* been released exactly once: trunk, cache, allocator, io handle, task
\* system, the heap if the Store holds one, and the Store object's own
\* allocation (freed, or gone with the heap it was allocated from), also
\* when the Store has no heap.
CloseReleasesStoreObject ==
    (call.op = "close" /\ call.api = "splinterdb" /\ call.out.returned)
       => /\ \A r \in {"trunk", "cache", "allocator", "io_handle",
                       "task_system"} :
                Count(call.out.released, r) = 1
          /\ call.out.kvs.heap_handle # NULL_HANDLE
                => /\ Count(call.out.released, "heap") = 1
                   /\ call.out.kvs.heap_handle \notin live_heaps
          /\ \/ Count(call.out.released, "kvs") = 1
             \/ /\ call.out.kvs.heap_id # NULL_HANDLE
                /\ call.out.kvs.heap_id \notin live_heaps

\* C40: every physical key handed to the engine, by insert, delete,
\* update, lookup or iterator_init with a non-null start key, encodes a
\* logical key no longer than the application's key_size, its length
\* stored whole in the header byte; a longer key is rejected with EINVAL
\* before the engine is called (iterator_init may run out of memory for
\* its wrapper before it looks at the key).
EngineKeysWithinKeySize ==
    /\ \A e \in spl :
          /\ e.key[1] <= app_data_cfg.key_size
          /\ Len(decode_key(e.key)) = e.key[1]
    /\ (iter.live /\ ~ slice_is_null(iter.start))
          => /\ iter.min_key[1] = slice_length(iter.start)
             /\ iter.min_key[1] <= app_data_cfg.key_size
    /\ (/\ last.op \in {"insert", "delete", "update", "lookup",
                        "iterator_init"}
        /\ ~ slice_is_null(last.key)
        /\ slice_length(last.key) > app_data_cfg.key_size)
          => \/ last.rc = EINVAL
             \/ /\ last.op = "iterator_init"
                /\ last.rc = platform_status_to_int(STATUS_NO_MEMORY)

====
